---- MODULE Spec2Model ----
(***************************************************************************)
(* Model of the trading engine: Position accounting, the three-state       *)
(* trading StateMachine, the SymbolRunner task loop and the TradingEngine  *)
(* supervisor (routing table, fan-out, commands, runner lifecycle).        *)
(*                                                                         *)
(* Prices and quantities are f64 in the program; the model draws them from *)
(* small integer sets, which keeps the comparisons and the P&L arithmetic  *)
(* exact.  Option<T> is modelled as a sequence: << >> is None, <<x>> is    *)
(* Some(x).  Wall-clock timestamps (chrono::Utc::now) are not modelled.    *)
(***************************************************************************)
EXTENDS Integers, Sequences, FiniteSets, TLC

VARIABLES
    sm,            \* a stand-alone StateMachine driven by execute/update calls
    op,            \* the last call made on sm: [kind, action | data]
    nops,          \* number of calls made on sm
    runners,       \* TradingEngine.runners: runner_id -> RunnerHandle (symbol; the
                   \* handle owns the data sender and the command sender)
    subscriptions, \* TradingEngine.subscriptions: symbol -> sequence of runner ids
    task,          \* per id: the spawned task: pc, result and its SymbolRunner
    inbox,         \* per id: bars queued on the data channel
    cmdq,          \* per id: commands queued on the command channel
    replies,       \* per id: the last reply sent on a one-shot channel
    emitted,       \* the events the last step sent on the global event channel
    ret,           \* the last engine call and what it returned
    joining,       \* the runner whose task remove_runner is awaiting, if any
    nfeeds,        \* number of feed_data calls made
    ncmds,         \* number of commands sent
    nadds,         \* number of add_runner calls made
    shutdown,      \* the shutdown() call: its phase and the runner ids it collected
    bus,           \* the global event channel, the aggregated stream and the
                   \* event subscribers, in the behaviours that record them
    query,         \* the get_runner_snapshot / get_price_history call that is
                   \* waiting on its one-shot channel, if any
    position       \* a stand-alone Position driven by calls of its methods, if any

vars == <<sm, op, nops, runners, subscriptions, task, inbox, cmdq, replies,
          emitted, ret, joining, nfeeds, ncmds, nadds, shutdown, bus, query,
          position>>

fsmVars == <<sm, op, nops, position>>

engVars == <<runners, subscriptions, task, inbox, cmdq, replies, emitted, ret,
             joining, nfeeds, ncmds, nadds, shutdown, bus, query>>

-----------------------------------------------------------------------------
(* Bounds of the model *)

\* calls made on the stand-alone state machine
MaxOps == 5

\* feed_data calls made on the engine with two runners
MaxFeeds == 2

\* feed_data calls made on the engine with a single runner
MaxTicks == 3

\* commands sent to runners
MaxCmds == 2

\* add_runner calls made on the engine
MaxAdds == 2

\* calls made on the stand-alone position
MaxPositionOps == 3

\* largest capacity of the bar window whose pushes are followed
MaxCapacity == 2

\* calls made on the state machine whose transition log is filled
MaxLogOps == 102

\* feed_data calls in the behaviours that record the event stream
MaxEventFeeds == 1

\* add_runner calls in the behaviours that record the event stream
MaxEventAdds == 2

\* event subscribers at a time
MaxSubs == 2

(* Input sets *)

Prices == {1, 2, 3}

Quantities == {1, 2}

Reasons == {"sig"}

Symbols == {"ETHUSDT", "BTCUSDT"}

RunnerIds == {"a", "b"}

WindowSizes == {2}

\* what detect_opportunity's table may carry: signal and confidence, each optional
OppTables ==
    {[kind |-> "table", signal |-> << >>, confidence |-> << >>],
     [kind |-> "table", signal |-> <<"bullish">>, confidence |-> <<1>>]}

-----------------------------------------------------------------------------
(* Option<T> *)

None == << >>

Some(x) == <<x>>

IsSome(o) == o # << >>

Unwrap(o) == o[1]

-----------------------------------------------------------------------------
(* state_machine/state.rs, state_machine/position.rs *)

State == {"Idle", "Analyzing", "InPosition"}

Side == {"Long", "Short"}

is_idle(s) == s = "Idle"

is_analyzing(s) == s = "Analyzing"

\* Position::new
PositionNew(entry_price, quantity, side) ==
    [entry_price   |-> entry_price,
     quantity      |-> quantity,
     side          |-> side,
     current_price |-> entry_price,
     stop_loss     |-> None,
     take_profit   |-> None,
     exit_price    |-> None]

update_current_price(pos, price) == [pos EXCEPT !.current_price = price]

set_stop_loss(pos, stop) == [pos EXCEPT !.stop_loss = Some(stop)]

set_take_profit(pos, target) == [pos EXCEPT !.take_profit = Some(target)]

is_closed(pos) == IsSome(pos.exit_price)

close(pos, exit_price) == [pos EXCEPT !.exit_price = Some(exit_price)]

unrealized_pnl(pos) ==
    IF is_closed(pos) THEN None
    ELSE Some((IF pos.side = "Long"
               THEN pos.current_price - pos.entry_price
               ELSE pos.entry_price - pos.current_price) * pos.quantity)

realized_pnl(pos) ==
    IF ~IsSome(pos.exit_price) THEN None
    ELSE Some((IF pos.side = "Long"
               THEN Unwrap(pos.exit_price) - pos.entry_price
               ELSE pos.entry_price - Unwrap(pos.exit_price)) * pos.quantity)

is_stop_loss_hit(pos) ==
    IF IsSome(pos.stop_loss)
    THEN IF pos.side = "Long"
         THEN pos.current_price <= Unwrap(pos.stop_loss)
         ELSE pos.current_price >= Unwrap(pos.stop_loss)
    ELSE FALSE

is_take_profit_hit(pos) ==
    IF IsSome(pos.take_profit)
    THEN IF pos.side = "Long"
         THEN pos.current_price >= Unwrap(pos.take_profit)
         ELSE pos.current_price <= Unwrap(pos.take_profit)
    ELSE FALSE

-----------------------------------------------------------------------------
(* state_machine/context.rs: the keys the engine writes *)

ContextNew ==
    [latest_price     |-> None,
     latest_timestamp |-> None,
     signal           |-> None,
     confidence       |-> None]

-----------------------------------------------------------------------------
(* state_machine/mod.rs *)

MAX_TRANSITION_HISTORY == 100

\* Action (state_machine/action.rs); table_to_action builds every kind but NoAction
EntryActions ==
    [type : {"EnterLong", "EnterShort"}, price : Prices, quantity : Quantities]

Actions ==
    EntryActions
    \cup [type : {"ExitPosition"}, price : Prices]
    \cup [type : {"UpdateStopLoss"}, new_stop : Prices]
    \cup [type : {"UpdateTakeProfit"}, new_target : Prices]
    \cup [type : {"StartAnalyzing", "CancelAnalysis"}, reason : Reasons]
    \cup [type : {"NoAction"}]

is_entry(action) == action.type \in {"EnterLong", "EnterShort"}

\* StateMachine::new
StateMachineNew ==
    [state              |-> "Idle",
     context            |-> ContextNew,
     position           |-> None,
     transition_history |-> << >>]

\* a variant that never discards a record
transition_to_unbounded(m, new_state, reason) ==
    [m EXCEPT
       !.transition_history =
           Append(@, [from |-> m.state, to |-> new_state, reason |-> reason]),
       !.state = new_state]

transition_to(m, new_state, reason) ==
    LET pushed == Append(m.transition_history,
                         [from |-> m.state, to |-> new_state, reason |-> reason])
    IN [m EXCEPT
          !.transition_history =
              IF Len(pushed) > MAX_TRANSITION_HISTORY THEN Tail(pushed) ELSE pushed,
          !.state = new_state]

\* a variant that keeps a position that is already held
enter_position_keeps_held(m, entry_price, quantity, side) ==
    transition_to(IF IsSome(m.position) THEN m
                  ELSE [m EXCEPT !.position =
                                    Some(PositionNew(entry_price, quantity, side))],
                  "InPosition",
                  IF side = "Long" THEN "Entered Long" ELSE "Entered Short")

enter_position(m, entry_price, quantity, side) ==
    transition_to([m EXCEPT !.position = Some(PositionNew(entry_price, quantity, side))],
                  "InPosition",
                  IF side = "Long" THEN "Entered Long" ELSE "Entered Short")

\* the reason exit_position logs for the closed position pos:
\* format!("Exited position at ${:.2}, PnL: ${:.2} ({:.2}%)", exit_price, pnl, pnl_pct)
\* with pnl_pct = pnl / (entry_price * quantity) * 100, written here as the
\* fraction it is computed from
exit_reason(pos, exit_price) ==
    LET pnl == IF IsSome(realized_pnl(pos)) THEN Unwrap(realized_pnl(pos)) ELSE 0
    IN "Exited position at $" \o ToString(exit_price)
       \o ", PnL: $" \o ToString(pnl)
       \o " (" \o ToString(pnl * 100) \o "/"
       \o ToString(pos.entry_price * pos.quantity) \o "%)"

\* a variant that closes the position but leaves it in the state machine
exit_position_keeps(m, exit_price) ==
    IF IsSome(m.position)
    THEN transition_to([m EXCEPT !.position = Some(close(Unwrap(m.position), exit_price))],
                       "Idle", exit_reason(close(Unwrap(m.position), exit_price), exit_price))
    ELSE m

\* a variant that logs a transition to Idle when there is no position to exit
exit_position_logs_rejected(m, exit_price) ==
    IF IsSome(m.position)
    THEN transition_to([m EXCEPT !.position = None], "Idle",
                       exit_reason(close(Unwrap(m.position), exit_price), exit_price))
    ELSE transition_to(m, "Idle", "rejected")

\* the position is taken out (position.take()), closed, and the state set to Idle
exit_position(m, exit_price) ==
    IF IsSome(m.position)
    THEN transition_to([m EXCEPT !.position = None], "Idle",
                       exit_reason(close(Unwrap(m.position), exit_price), exit_price))
    ELSE m

\* a variant whose StartAnalyzing does not test the state
execute_unguarded(m, action) ==
    CASE action.type = "EnterLong" ->
            enter_position(m, action.price, action.quantity, "Long")
      [] action.type = "EnterShort" ->
            enter_position(m, action.price, action.quantity, "Short")
      [] action.type = "ExitPosition" -> exit_position(m, action.price)
      [] action.type = "UpdateStopLoss" ->
            IF IsSome(m.position)
            THEN [m EXCEPT !.position = Some(set_stop_loss(Unwrap(m.position), action.new_stop))]
            ELSE m
      [] action.type = "UpdateTakeProfit" ->
            IF IsSome(m.position)
            THEN [m EXCEPT !.position = Some(set_take_profit(Unwrap(m.position), action.new_target))]
            ELSE m
      [] action.type = "StartAnalyzing" -> transition_to(m, "Analyzing", action.reason)
      [] action.type = "CancelAnalysis" ->
            IF is_analyzing(m.state) THEN transition_to(m, "Idle", action.reason) ELSE m
      [] action.type = "NoAction" -> m

\* StateMachine::execute always returns Ok(()); the value is the new machine
execute(m, action) ==
    CASE action.type = "EnterLong" ->
            enter_position(m, action.price, action.quantity, "Long")
      [] action.type = "EnterShort" ->
            enter_position(m, action.price, action.quantity, "Short")
      [] action.type = "ExitPosition" -> exit_position(m, action.price)
      [] action.type = "UpdateStopLoss" ->
            IF IsSome(m.position)
            THEN [m EXCEPT !.position = Some(set_stop_loss(Unwrap(m.position), action.new_stop))]
            ELSE m
      [] action.type = "UpdateTakeProfit" ->
            IF IsSome(m.position)
            THEN [m EXCEPT !.position = Some(set_take_profit(Unwrap(m.position), action.new_target))]
            ELSE m
      [] action.type = "StartAnalyzing" ->
            IF is_idle(m.state) THEN transition_to(m, "Analyzing", action.reason) ELSE m
      [] action.type = "CancelAnalysis" ->
            IF is_analyzing(m.state) THEN transition_to(m, "Idle", action.reason) ELSE m
      [] action.type = "NoAction" -> m

\* a variant that tests the risk predicates before the price is updated
update_stale(m, data) ==
    LET c == [m.context EXCEPT !.latest_price = Some(data.close),
                               !.latest_timestamp = Some(data.timestamp)]
        m1 == [m EXCEPT !.context = c]
    IN IF IsSome(m1.position)
       THEN LET old == Unwrap(m1.position)
                pos == update_current_price(old, data.close)
                m2  == [m1 EXCEPT !.position = Some(pos)]
            IN IF is_stop_loss_hit(old) THEN exit_position(m2, data.close)
               ELSE IF is_take_profit_hit(old) THEN exit_position(m2, data.close)
               ELSE m2
       ELSE m1

\* StateMachine::update
update(m, data) ==
    LET c == [m.context EXCEPT !.latest_price = Some(data.close),
                               !.latest_timestamp = Some(data.timestamp)]
        m1 == [m EXCEPT !.context = c]
    IN IF IsSome(m1.position)
       THEN LET pos == update_current_price(Unwrap(m1.position), data.close)
                m2  == [m1 EXCEPT !.position = Some(pos)]
            IN IF is_stop_loss_hit(pos) THEN exit_position(m2, data.close)
               ELSE IF is_take_profit_hit(pos) THEN exit_position(m2, data.close)
               ELSE m2
       ELSE m1

-----------------------------------------------------------------------------
(* The stand-alone state machine: any sequence of execute and update calls *)

FsmInit ==
    /\ sm = StateMachineNew
    /\ op = [kind |-> "new"]
    /\ nops = 0
    /\ position = None

\* sm.execute(a)
Execute(a) ==
    /\ sm' = execute(sm, a)
    /\ op' = [kind |-> "execute", action |-> a]
    /\ nops' = nops + 1
    /\ UNCHANGED position
    /\ UNCHANGED engVars

-----------------------------------------------------------------------------
(* The stand-alone position: any sequence of calls of its methods *)

\* Position::new(entry_price, quantity, side, now)
PositionInit ==
    /\ sm = StateMachineNew
    /\ op = [kind |-> "new"]
    /\ nops = 0
    /\ position \in {Some(PositionNew(entry_price, quantity, side)) :
                        entry_price \in Prices, quantity \in Quantities, side \in Side}

\* position.update_current_price(price)
UpdateCurrentPrice(price) ==
    /\ IsSome(position)
    /\ position' = Some(update_current_price(Unwrap(position), price))
    /\ op' = [kind |-> "update_current_price", price |-> price]
    /\ nops' = nops + 1
    /\ UNCHANGED sm
    /\ UNCHANGED engVars

\* position.set_stop_loss(stop)
SetStopLoss(stop) ==
    /\ IsSome(position)
    /\ position' = Some(set_stop_loss(Unwrap(position), stop))
    /\ op' = [kind |-> "set_stop_loss", price |-> stop]
    /\ nops' = nops + 1
    /\ UNCHANGED sm
    /\ UNCHANGED engVars

\* position.set_take_profit(target)
SetTakeProfit(target) ==
    /\ IsSome(position)
    /\ position' = Some(set_take_profit(Unwrap(position), target))
    /\ op' = [kind |-> "set_take_profit", price |-> target]
    /\ nops' = nops + 1
    /\ UNCHANGED sm
    /\ UNCHANGED engVars

\* position.close(exit_price, now)
Close(exit_price) ==
    /\ IsSome(position)
    /\ position' = Some(close(Unwrap(position), exit_price))
    /\ op' = [kind |-> "close", price |-> exit_price]
    /\ nops' = nops + 1
    /\ UNCHANGED sm
    /\ UNCHANGED engVars

\* sm.update(&data); exited records that the call took the position out
Update(close_px) ==
    LET data == [symbol |-> "BTCUSDT", close |-> close_px, timestamp |-> nops + 1]
    IN /\ sm' = update(sm, data)
       /\ op' = [kind |-> "update", data |-> data,
                 exited |-> IsSome(sm.position) /\ sm'.position = None]
       /\ nops' = nops + 1
       /\ UNCHANGED position
       /\ UNCHANGED engVars

-----------------------------------------------------------------------------
(* market_data/window.rs, runner/stats.rs, runner/snapshot.rs *)

\* MarketData::validate (market_data/mod.rs)
validate(data) ==
    IF data.high < data.low THEN "InvalidData"
    ELSE IF data.open <= 0 \/ data.close <= 0 THEN "InvalidData"
    ELSE "Ok"

\* MarketDataWindow::push
window_push(data, max_size, market_data) ==
    Append(IF Len(data) >= max_size /\ Len(data) > 0 THEN Tail(data) ELSE data,
           market_data)

RunnerStatsNew == [ticks_processed |-> 0, actions_executed |-> 0, errors |-> 0]

\* a variant that counts a processed tick twice
record_tick_twice(stats) == [stats EXCEPT !.ticks_processed = @ + 2]

record_tick(stats) == [stats EXCEPT !.ticks_processed = @ + 1]

record_action(stats) == [stats EXCEPT !.actions_executed = @ + 1]

record_error(stats) == [stats EXCEPT !.errors = @ + 1]

RunnerStatus == {"Running", "Paused", "Stopped"}

is_active(status) == status = "Running"

is_paused(status) == status = "Paused"

is_stopped(status) == status = "Stopped"

\* RunnerCommand; the one-shot reply sender is the slot replies[id]
Commands ==
    [type : {"GetSnapshot", "Pause", "Resume", "Stop"}]
    \cup [type : {"GetPriceHistory"}, count : {None, Some(1)}]

-----------------------------------------------------------------------------
(* strategy/mod.rs: what a callback may return.  A script is arbitrary, so  *)
(* each call yields an error, nil, or a value of the callback's kind.       *)

DetectResults == {[kind |-> "err"], [kind |-> "nil"]} \cup OppTables

ActionResults ==
    {[kind |-> "err"], [kind |-> "nil"]}
    \cup {[kind |-> "action", action |-> a] : a \in Actions \ {[type |-> "NoAction"]}}

\* process_tick calls detect_opportunity in Idle, filter_commitment in
\* Analyzing and manage_position in InPosition
StrategyResults(state) == IF state = "Idle" THEN DetectResults ELSE ActionResults

-----------------------------------------------------------------------------
(* runner/mod.rs: SymbolRunner *)

\* SymbolRunner::new(..).with_config(config)
SymbolRunnerNew(symbol, window_size, stop_on_error) ==
    [symbol        |-> symbol,
     status        |-> "Running",
     window        |-> << >>,
     max_size      |-> window_size,
     state_machine |-> StateMachineNew,
     stop_on_error |-> stop_on_error,
     stats         |-> RunnerStatsNew]

\* a variant whose snapshot reports the statistics of a fresh runner
create_snapshot_fresh_stats(rn, id) ==
    [runner_id     |-> id,
     symbol        |-> rn.symbol,
     status        |-> rn.status,
     current_state |-> rn.state_machine.state,
     position      |-> rn.state_machine.position,
     context       |-> rn.state_machine.context,
     stats         |-> RunnerStatsNew]

create_snapshot(rn, id) ==
    [runner_id     |-> id,
     symbol        |-> rn.symbol,
     status        |-> rn.status,
     current_state |-> rn.state_machine.state,
     position      |-> rn.state_machine.position,
     context       |-> rn.state_machine.context,
     stats         |-> rn.stats]

get_price_history(rn, count) ==
    IF IsSome(count)
    THEN LET n == Unwrap(count)
             start == IF Len(rn.window) > n THEN Len(rn.window) - n ELSE 0
         IN SubSeq(rn.window, start + 1, Len(rn.window))
    ELSE rn.window

\* a variant in which Resume also restarts a stopped runner
handle_command_resume_stopped(rn, id, cmd) ==
    CASE cmd.type = "GetSnapshot" ->
            [rn |-> rn, reply |-> [cmd |-> cmd.type, value |-> create_snapshot(rn, id)]]
      [] cmd.type = "GetPriceHistory" ->
            [rn |-> rn,
             reply |-> [cmd |-> cmd.type, value |-> get_price_history(rn, cmd.count)]]
      [] cmd.type = "Pause" ->
            IF is_active(rn.status)
            THEN [rn |-> [rn EXCEPT !.status = "Paused"],
                  reply |-> [cmd |-> cmd.type, value |-> TRUE]]
            ELSE [rn |-> rn, reply |-> [cmd |-> cmd.type, value |-> FALSE]]
      [] cmd.type = "Resume" ->
            IF ~is_active(rn.status)
            THEN [rn |-> [rn EXCEPT !.status = "Running"],
                  reply |-> [cmd |-> cmd.type, value |-> TRUE]]
            ELSE [rn |-> rn, reply |-> [cmd |-> cmd.type, value |-> FALSE]]
      [] cmd.type = "Stop" ->
            [rn |-> [rn EXCEPT !.status = "Stopped"],
             reply |-> [cmd |-> cmd.type, value |-> TRUE]]

\* handle_command: the runner after the command, and the reply it sends
handle_command(rn, id, cmd) ==
    CASE cmd.type = "GetSnapshot" ->
            [rn |-> rn, reply |-> [cmd |-> cmd.type, value |-> create_snapshot(rn, id)]]
      [] cmd.type = "GetPriceHistory" ->
            [rn |-> rn,
             reply |-> [cmd |-> cmd.type, value |-> get_price_history(rn, cmd.count)]]
      [] cmd.type = "Pause" ->
            IF is_active(rn.status)
            THEN [rn |-> [rn EXCEPT !.status = "Paused"],
                  reply |-> [cmd |-> cmd.type, value |-> TRUE]]
            ELSE [rn |-> rn, reply |-> [cmd |-> cmd.type, value |-> FALSE]]
      [] cmd.type = "Resume" ->
            IF is_paused(rn.status)
            THEN [rn |-> [rn EXCEPT !.status = "Running"],
                  reply |-> [cmd |-> cmd.type, value |-> TRUE]]
            ELSE [rn |-> rn, reply |-> [cmd |-> cmd.type, value |-> FALSE]]
      [] cmd.type = "Stop" ->
            [rn |-> [rn EXCEPT !.status = "Stopped"],
             reply |-> [cmd |-> cmd.type, value |-> TRUE]]

\* a variant whose handle_idle enters a position on a signalled opportunity
handle_state_idle_enters(m, sr) ==
    IF m.state = "Idle"
    THEN IF sr.kind = "table"
         THEN [m |-> m,
               action |-> Some(IF IsSome(sr.signal)
                               THEN [type |-> "EnterLong", price |-> 1, quantity |-> 1]
                               ELSE [type |-> "StartAnalyzing",
                                     reason |-> "Strategy detected opportunity"])]
         ELSE [m |-> m, action |-> None]
    ELSE IF sr.kind = "action"
         THEN [m |-> m, action |-> Some(sr.action)]
         ELSE [m |-> m, action |-> None]

\* handle_idle / handle_analyzing / handle_in_position on a successful callback:
\* the state machine (handle_idle copies signal and confidence into the
\* context) and the action handed back to process_tick
handle_state(m, sr) ==
    IF m.state = "Idle"
    THEN IF sr.kind = "table"
         THEN [m |-> [m EXCEPT
                        !.context.signal =
                            IF IsSome(sr.signal) THEN sr.signal ELSE @,
                        !.context.confidence =
                            IF IsSome(sr.confidence) THEN sr.confidence ELSE @],
               action |-> Some([type |-> "StartAnalyzing",
                                reason |-> "Strategy detected opportunity"])]
         ELSE [m |-> m, action |-> None]
    ELSE IF sr.kind = "action"
         THEN [m |-> m, action |-> Some(sr.action)]
         ELSE [m |-> m, action |-> None]

\* process_tick, "Execute action if returned": ActionExecuted, then
\* PositionOpened when the action is an entry and a position exists
action_events(id, action, m1, market_data) ==
    IF IsSome(action)
    THEN <<[type |-> "ActionExecuted", runner_id |-> id,
            action |-> Unwrap(action), timestamp |-> market_data.timestamp]>>
         \o (IF is_entry(Unwrap(action)) /\ IsSome(m1.position)
             THEN <<[type |-> "PositionOpened", runner_id |-> id,
                     position |-> Unwrap(m1.position),
                     timestamp |-> market_data.timestamp]>>
             ELSE << >>)
    ELSE << >>

\* process_tick, "Emit state transition event if state changed"
transition_events(id, state_before, state_after, market_data) ==
    IF state_before # state_after
    THEN <<[type |-> "StateTransition", runner_id |-> id,
            from |-> state_before, to |-> state_after,
            reason |-> "State machine transition",
            timestamp |-> market_data.timestamp]>>
    ELSE << >>

\* process_tick, "Emit position update or closed event"; position_before is
\* the clone taken after the action was executed and before update()
position_events(id, position_before, position_after, market_data) ==
    IF IsSome(position_after)
    THEN IF IsSome(unrealized_pnl(Unwrap(position_after)))
         THEN <<[type |-> "PositionUpdated", runner_id |-> id,
                 current_price |-> market_data.close,
                 unrealized_pnl |-> Unwrap(unrealized_pnl(Unwrap(position_after))),
                 timestamp |-> market_data.timestamp]>>
         ELSE << >>
    ELSE IF IsSome(position_before)
         THEN IF IsSome(realized_pnl(Unwrap(position_before)))
              THEN <<[type |-> "PositionClosed", runner_id |-> id,
                      exit_price |-> Unwrap(position_before).current_price,
                      realized_pnl |-> Unwrap(realized_pnl(Unwrap(position_before))),
                      reason |-> "Position closed",
                      timestamp |-> market_data.timestamp]>>
              ELSE << >>
         ELSE << >>

\* a variant that emits the state change ahead of the action's events
tick_events_early_transition(ev_tick, ev_action, ev_transition, ev_position) ==
    ev_tick \o ev_transition \o ev_action \o ev_position

\* the order in which process_tick sends the events of one tick
tick_events(ev_tick, ev_action, ev_transition, ev_position) ==
    ev_tick \o ev_action \o ev_transition \o ev_position

\* a variant in which a failing callback leaves the window and the context
\* as they were before the tick
process_tick_fails_clean(rn, id, market_data, sr) ==
    LET ev_tick == <<[type |-> "TickReceived", runner_id |-> id,
                      symbol |-> rn.symbol, data |-> market_data]>>
        w  == window_push(rn.window, rn.max_size, market_data)
        m0 == [rn.state_machine EXCEPT
                 !.context.latest_price = Some(market_data.close),
                 !.context.latest_timestamp = Some(market_data.timestamp)]
        state_before == m0.state
    IN IF sr.kind = "err"
       THEN [rn  |-> rn,
             evs |-> ev_tick,
             res |-> "Err"]
       ELSE LET h  == handle_state(m0, sr)
                m1 == IF IsSome(h.action) THEN execute(h.m, Unwrap(h.action)) ELSE h.m
                stats1 == IF IsSome(h.action) THEN record_action(rn.stats) ELSE rn.stats
                position_before == m1.position
                m2 == update(m1, market_data)
                state_after == m2.state
            IN [rn  |-> [rn EXCEPT !.window = w, !.state_machine = m2,
                                   !.stats = record_tick(stats1)],
                evs |-> tick_events(ev_tick,
                                    action_events(id, h.action, m1, market_data),
                                    transition_events(id, state_before, state_after,
                                                      market_data),
                                    position_events(id, position_before, m2.position,
                                                    market_data)),
                res |-> "Ok"]

\* process_tick: the runner after the tick, the events sent, and Ok or Err.
\* sr is what the strategy callback returns on this tick.
process_tick(rn, id, market_data, sr) ==
    LET ev_tick == <<[type |-> "TickReceived", runner_id |-> id,
                      symbol |-> rn.symbol, data |-> market_data]>>
        w  == window_push(rn.window, rn.max_size, market_data)
        m0 == [rn.state_machine EXCEPT
                 !.context.latest_price = Some(market_data.close),
                 !.context.latest_timestamp = Some(market_data.timestamp)]
        state_before == m0.state
    IN IF sr.kind = "err"
       THEN [rn  |-> [rn EXCEPT !.window = w, !.state_machine = m0],
             evs |-> ev_tick,
             res |-> "Err"]
       ELSE LET h  == handle_state(m0, sr)
                m1 == IF IsSome(h.action) THEN execute(h.m, Unwrap(h.action)) ELSE h.m
                stats1 == IF IsSome(h.action) THEN record_action(rn.stats) ELSE rn.stats
                position_before == m1.position
                m2 == update(m1, market_data)
                state_after == m2.state
            IN [rn  |-> [rn EXCEPT !.window = w, !.state_machine = m2,
                                   !.stats = record_tick(stats1)],
                evs |-> tick_events(ev_tick,
                                    action_events(id, h.action, m1, market_data),
                                    transition_events(id, state_before, state_after,
                                                      market_data),
                                    position_events(id, position_before, m2.position,
                                                    market_data)),
                res |-> "Ok"]

\* a variant of the data branch without the test that skips a paused runner
run_data_late_pause(rn, id, market_data, sr) ==
    IF is_stopped(rn.status)
    THEN [rn |-> rn, evs |-> << >>, pc |-> "returned", result |-> "Ok"]
    ELSE IF market_data.symbol # rn.symbol
    THEN [rn |-> rn, evs |-> << >>, pc |-> "running", result |-> "none"]
    ELSE LET t == process_tick(rn, id, market_data, sr)
             ev_error == [type |-> "Error", runner_id |-> id,
                          severity |-> IF rn.stop_on_error THEN "Critical" ELSE "Error",
                          timestamp |-> market_data.timestamp]
         IN IF t.res = "Err"
            THEN IF rn.stop_on_error
                 THEN [rn |-> t.rn, evs |-> Append(t.evs, ev_error),
                       pc |-> "returned", result |-> "Err"]
                 ELSE [rn |-> [t.rn EXCEPT !.stats = record_error(@)],
                       evs |-> Append(t.evs, ev_error),
                       pc |-> "running", result |-> "none"]
            ELSE [rn |-> t.rn, evs |-> t.evs, pc |-> "running", result |-> "none"]

\* a variant of the data branch that goes on after a failed tick without
\* counting the error
run_data_uncounted_error(rn, id, market_data, sr) ==
    IF is_stopped(rn.status)
    THEN [rn |-> rn, evs |-> << >>, pc |-> "returned", result |-> "Ok"]
    ELSE IF market_data.symbol # rn.symbol
    THEN [rn |-> rn, evs |-> << >>, pc |-> "running", result |-> "none"]
    ELSE IF ~is_active(rn.status)
    THEN [rn |-> rn, evs |-> << >>, pc |-> "running", result |-> "none"]
    ELSE LET t == process_tick(rn, id, market_data, sr)
             ev_error == [type |-> "Error", runner_id |-> id,
                          severity |-> IF rn.stop_on_error THEN "Critical" ELSE "Error",
                          timestamp |-> market_data.timestamp]
         IN IF t.res = "Err"
            THEN IF rn.stop_on_error
                 THEN [rn |-> t.rn, evs |-> Append(t.evs, ev_error),
                       pc |-> "returned", result |-> "Err"]
                 ELSE [rn |-> t.rn,
                       evs |-> Append(t.evs, ev_error),
                       pc |-> "running", result |-> "none"]
            ELSE [rn |-> t.rn, evs |-> t.evs, pc |-> "running", result |-> "none"]

\* a variant of the data branch that goes on after a failed tick although
\* stop_on_error is set
run_data_never_stops(rn, id, market_data, sr) ==
    IF is_stopped(rn.status)
    THEN [rn |-> rn, evs |-> << >>, pc |-> "returned", result |-> "Ok"]
    ELSE IF market_data.symbol # rn.symbol
    THEN [rn |-> rn, evs |-> << >>, pc |-> "running", result |-> "none"]
    ELSE IF ~is_active(rn.status)
    THEN [rn |-> rn, evs |-> << >>, pc |-> "running", result |-> "none"]
    ELSE LET t == process_tick(rn, id, market_data, sr)
             ev_error == [type |-> "Error", runner_id |-> id,
                          severity |-> IF rn.stop_on_error THEN "Critical" ELSE "Error",
                          timestamp |-> market_data.timestamp]
         IN IF t.res = "Err"
            THEN [rn |-> [t.rn EXCEPT !.stats = record_error(@)],
                  evs |-> Append(t.evs, ev_error),
                  pc |-> "running", result |-> "none"]
            ELSE [rn |-> t.rn, evs |-> t.evs, pc |-> "running", result |-> "none"]

\* run, the data branch of select! for a received bar: the runner afterwards,
\* the events sent, and whether the loop goes on or run returns (and with what)
run_data(rn, id, market_data, sr) ==
    IF is_stopped(rn.status)
    THEN [rn |-> rn, evs |-> << >>, pc |-> "returned", result |-> "Ok"]
    ELSE IF market_data.symbol # rn.symbol
    THEN [rn |-> rn, evs |-> << >>, pc |-> "running", result |-> "none"]
    ELSE IF ~is_active(rn.status)
    THEN [rn |-> rn, evs |-> << >>, pc |-> "running", result |-> "none"]
    ELSE LET t == process_tick(rn, id, market_data, sr)
             ev_error == [type |-> "Error", runner_id |-> id,
                          severity |-> IF rn.stop_on_error THEN "Critical" ELSE "Error",
                          timestamp |-> market_data.timestamp]
         IN IF t.res = "Err"
            THEN IF rn.stop_on_error
                 THEN [rn |-> t.rn, evs |-> Append(t.evs, ev_error),
                       pc |-> "returned", result |-> "Err"]
                 ELSE [rn |-> [t.rn EXCEPT !.stats = record_error(@)],
                       evs |-> Append(t.evs, ev_error),
                       pc |-> "running", result |-> "none"]
            ELSE [rn |-> t.rn, evs |-> t.evs, pc |-> "running", result |-> "none"]

-----------------------------------------------------------------------------
(* runner/engine.rs: TradingEngine and the runner tasks it spawns *)

\* the event channel of new(): event_tx feeds the forwarding task, which
\* sends every event on to the subscribers' channels.  chan is what has been
\* sent and not yet forwarded, forwarded is the aggregated stream so far,
\* subs are the subscriber senders in event_subscribers with what each
\* subscriber was sent.  The stream is recorded only where recording is set.
NoBus == [recording |-> FALSE, chan |-> << >>, forwarded |-> << >>, subs |-> << >>]

\* event_tx.send(event) for each event of a step, in order
event_send(b, evs) == IF b.recording THEN [b EXCEPT !.chan = @ \o evs] ELSE b

NoTask ==
    [pc |-> "none", result |-> "none", gen |-> 0,
     runner |-> SymbolRunnerNew("", 0, FALSE)]

\* no get_runner_snapshot / get_price_history call is waiting
NoQuery == [phase |-> "idle"]

\* the command a query sends carries the sender of the call's one-shot
\* channel, named by the number of the call
IsResponseOf(q, cmd) ==
    /\ q.phase = "waiting"
    /\ "response" \in DOMAIN cmd
    /\ cmd.response = q.response

\* a variant that hands the value to whatever call is waiting
response_send_any(q, cmd, value) ==
    IF q.phase = "waiting" THEN [q EXCEPT !.slot = Some(value)] ELSE q

\* let _ = response.send(value): the value reaches the waiting call that
\* holds the receiver; when the receiver is gone the send fails and the
\* value is dropped
response_send(q, cmd, value) ==
    IF IsResponseOf(q, cmd) THEN [q EXCEPT !.slot = Some(value)] ELSE q

EngInit ==
    /\ runners = << >>
    /\ subscriptions = << >>
    /\ task = [id \in RunnerIds |-> NoTask]
    /\ inbox = [id \in RunnerIds |-> << >>]
    /\ cmdq = [id \in RunnerIds |-> << >>]
    /\ replies = [id \in RunnerIds |-> None]
    /\ emitted = << >>
    /\ ret = [call |-> "new"]
    /\ joining = None
    /\ nfeeds = 0
    /\ ncmds = 0
    /\ nadds = 0
    /\ shutdown = [phase |-> "none", runner_ids |-> {}]
    /\ query = NoQuery

\* a variant in which a send to a completed task's channel still succeeds
receiver_open_after_task(id) == task[id].pc \in {"running", "returned", "done"}

\* the receiver of a runner's channels lives in its SymbolRunner, which the
\* task owns until the task completes
receiver_open(id) == task[id].pc \in {"running", "returned"}

\* a variant that prunes every id of the list
retain_other_none(subs, runner_id) == SelectSeq(subs, LAMBDA x : FALSE)

\* subs.retain(|id| id != runner_id)
retain_other(subs, runner_id) == SelectSeq(subs, LAMBDA x : x # runner_id)

\* a variant that goes through the whole list and keeps the last failure
first_failed_keeps_last(runner_ids) ==
    IF \E i \in 1..Len(runner_ids) : ~receiver_open(runner_ids[i])
    THEN CHOOSE i \in 1..Len(runner_ids) :
            /\ ~receiver_open(runner_ids[i])
            /\ \A j \in (i + 1)..Len(runner_ids) : receiver_open(runner_ids[j])
    ELSE 0

\* feed_data's loop: the index of the first subscribed runner whose send
\* fails, or 0 when every send succeeds
first_failed(runner_ids) ==
    IF \E i \in 1..Len(runner_ids) : ~receiver_open(runner_ids[i])
    THEN CHOOSE i \in 1..Len(runner_ids) :
            /\ ~receiver_open(runner_ids[i])
            /\ \A j \in 1..(i - 1) : receiver_open(runner_ids[j])
    ELSE 0

\* a variant that keeps sending after a failed send and reports the first failure
feed_targets_all_healthy(runner_ids) ==
    {runner_ids[i] : i \in {j \in 1..Len(runner_ids) : receiver_open(runner_ids[j])}}

\* a variant that stops after its first successful send
feed_targets_first_only(runner_ids) ==
    LET k == first_failed(runner_ids)
    IN {runner_ids[i] : i \in {j \in 1..Len(runner_ids) : j = 1 /\ k # 1}}

\* the runners feed_data sends the bar to before it returns
feed_targets(runner_ids) ==
    LET k == first_failed(runner_ids)
    IN {runner_ids[i] : i \in 1..(IF k = 0 THEN Len(runner_ids) ELSE k - 1)}

\* a variant that spawns the task without sending RunnerStarted first
AddRunner_unannounced(id, symbol, window_size, stop_on_error) ==
    /\ joining = None
    /\ shutdown.phase = "none"
    /\ nadds' = nadds + 1
    /\ emitted' = << >>
    /\ IF id \in DOMAIN runners
       THEN /\ ret' = [call |-> "add_runner", id |-> id,
                       result |-> "RunnerAlreadyExists"]
            /\ UNCHANGED <<runners, subscriptions, task, inbox, cmdq, replies>>
       ELSE /\ task' = [task EXCEPT ![id] =
                          [pc |-> "running", result |-> "none", gen |-> nadds + 1,
                           runner |-> SymbolRunnerNew(symbol, window_size, stop_on_error)]]
            /\ inbox' = [inbox EXCEPT ![id] = << >>]
            /\ cmdq' = [cmdq EXCEPT ![id] = << >>]
            /\ replies' = [replies EXCEPT ![id] = None]
            /\ runners' = (id :> [symbol |-> symbol]) @@ runners
            /\ subscriptions' =
                  IF symbol \in DOMAIN subscriptions
                  THEN [subscriptions EXCEPT ![symbol] = Append(@, id)]
                  ELSE (symbol :> <<id>>) @@ subscriptions
            /\ ret' = [call |-> "add_runner", id |-> id, result |-> "Ok"]
    /\ UNCHANGED <<joining, nfeeds, ncmds>>
    /\ bus' = event_send(bus, emitted')
    /\ UNCHANGED <<fsmVars, shutdown, query>>

\* a variant without the test for an id that is already registered: the new
\* runner takes the place of the old one
AddRunner_replaces(id, symbol, window_size, stop_on_error) ==
    /\ joining = None
    /\ shutdown.phase = "none"
    /\ nadds' = nadds + 1
    /\ emitted' = <<[type |-> "RunnerStarted", runner_id |-> id, symbol |-> symbol]>>
    /\ task' = [task EXCEPT ![id] =
                  [pc |-> "running", result |-> "none", gen |-> nadds + 1,
                   runner |-> SymbolRunnerNew(symbol, window_size, stop_on_error)]]
    /\ inbox' = [inbox EXCEPT ![id] = << >>]
    /\ cmdq' = [cmdq EXCEPT ![id] = << >>]
    /\ replies' = [replies EXCEPT ![id] = None]
    /\ runners' = (id :> [symbol |-> symbol]) @@ runners
    /\ subscriptions' =
          IF symbol \in DOMAIN subscriptions
          THEN [subscriptions EXCEPT ![symbol] = Append(@, id)]
          ELSE (symbol :> <<id>>) @@ subscriptions
    /\ ret' = [call |-> "add_runner", id |-> id, result |-> "Ok"]
    /\ UNCHANGED <<joining, nfeeds, ncmds>>
    /\ bus' = event_send(bus, emitted')
    /\ UNCHANGED <<fsmVars, shutdown, query>>

\* add_runner_with_config
AddRunner(id, symbol, window_size, stop_on_error) ==
    /\ joining = None
    /\ shutdown.phase = "none"
    /\ nadds' = nadds + 1
    /\ IF id \in DOMAIN runners
       THEN /\ ret' = [call |-> "add_runner", id |-> id,
                       result |-> "RunnerAlreadyExists"]
            /\ emitted' = << >>
            /\ UNCHANGED <<runners, subscriptions, task, inbox, cmdq, replies>>
       ELSE /\ emitted' = <<[type |-> "RunnerStarted", runner_id |-> id,
                             symbol |-> symbol]>>
            /\ task' = [task EXCEPT ![id] =
                          [pc |-> "running", result |-> "none", gen |-> nadds + 1,
                           runner |-> SymbolRunnerNew(symbol, window_size, stop_on_error)]]
            /\ inbox' = [inbox EXCEPT ![id] = << >>]
            /\ cmdq' = [cmdq EXCEPT ![id] = << >>]
            /\ replies' = [replies EXCEPT ![id] = None]
            /\ runners' = (id :> [symbol |-> symbol]) @@ runners
            /\ subscriptions' =
                  IF symbol \in DOMAIN subscriptions
                  THEN [subscriptions EXCEPT ![symbol] = Append(@, id)]
                  ELSE (symbol :> <<id>>) @@ subscriptions
            /\ ret' = [call |-> "add_runner", id |-> id, result |-> "Ok"]
    /\ UNCHANGED <<joining, nfeeds, ncmds>>
    /\ bus' = event_send(bus, emitted')
    /\ UNCHANGED <<fsmVars, shutdown, query>>

\* remove_runner: the runner map without the handle of id
runners_without(id) == [x \in DOMAIN runners \ {id} |-> runners[x]]

\* a variant that keeps the symbol's list in the routing table when it is
\* left empty
subscriptions_without_keeps_empty(id) ==
    LET symbol == runners[id].symbol
        subs == retain_other(subscriptions[symbol], id)
    IN IF symbol \in DOMAIN subscriptions
       THEN [subscriptions EXCEPT ![symbol] = subs]
       ELSE subscriptions

\* remove_runner: the routing table with id pruned from its symbol's list,
\* and the list removed when it is left empty
subscriptions_without(id) ==
    LET symbol == runners[id].symbol
        subs == retain_other(subscriptions[symbol], id)
    IN IF symbol \in DOMAIN subscriptions
       THEN IF subs = << >>
            THEN [x \in DOMAIN subscriptions \ {symbol} |-> subscriptions[x]]
            ELSE [subscriptions EXCEPT ![symbol] = subs]
       ELSE subscriptions

\* remove_runner up to the await of the task handle
RemoveRunnerBegin(id) ==
    /\ joining = None
    /\ shutdown.phase = "none"
    /\ IF id \notin DOMAIN runners
       THEN /\ ret' = [call |-> "remove_runner", id |-> id, result |-> "RunnerNotFound"]
            /\ ret' # ret
            /\ UNCHANGED <<runners, subscriptions, joining>>
       ELSE /\ runners' = runners_without(id)
            /\ subscriptions' = subscriptions_without(id)
            /\ joining' = Some(id)
            /\ ret' = [call |-> "remove_runner", id |-> id, result |-> "pending"]
    /\ emitted' = << >>
    /\ UNCHANGED <<task, inbox, cmdq, replies, nfeeds, ncmds, nadds>>
    /\ bus' = event_send(bus, emitted')
    /\ UNCHANGED <<fsmVars, shutdown, query>>

\* remove_runner: handle.task.await completes and the task's result is returned
RemoveRunnerEnd ==
    /\ shutdown.phase = "none"
    /\ IsSome(joining)
    /\ task[Unwrap(joining)].pc = "done"
    /\ ret' = [call |-> "remove_runner", id |-> Unwrap(joining),
               result |-> task[Unwrap(joining)].result]
    /\ joining' = None
    /\ emitted' = << >>
    /\ UNCHANGED <<runners, subscriptions, task, inbox, cmdq, replies, nfeeds,
                   ncmds, nadds>>
    /\ bus' = event_send(bus, emitted')
    /\ UNCHANGED <<fsmVars, shutdown, query>>

\* shutdown: the ids of the registered runners are collected; the call owns
\* the engine from here on
ShutdownBegin ==
    /\ joining = None
    /\ shutdown.phase = "none"
    /\ shutdown' = [phase |-> "removing", runner_ids |-> DOMAIN runners]
    /\ ret' = [call |-> "shutdown", result |-> "pending"]
    /\ emitted' = << >>
    /\ bus' = event_send(bus, emitted')
    /\ UNCHANGED <<runners, subscriptions, task, inbox, cmdq, replies, joining,
                   nfeeds, ncmds, nadds>>
    /\ UNCHANGED <<fsmVars, query>>

\* shutdown's loop calls remove_runner on the next collected id (the order
\* is that of the keys of a HashMap), up to the await of the task handle
ShutdownRemove(id) ==
    /\ shutdown.phase = "removing"
    /\ joining = None
    /\ id \in shutdown.runner_ids
    /\ id \in DOMAIN runners
    /\ runners' = runners_without(id)
    /\ subscriptions' = subscriptions_without(id)
    /\ joining' = Some(id)
    /\ emitted' = << >>
    /\ bus' = event_send(bus, emitted')
    /\ UNCHANGED <<task, inbox, cmdq, replies, ret, nfeeds, ncmds, nadds, shutdown>>
    /\ UNCHANGED <<fsmVars, query>>

\* the await inside that remove_runner returns; shutdown logs an error
\* result and goes on with its loop
ShutdownJoin ==
    /\ shutdown.phase = "removing"
    /\ IsSome(joining)
    /\ task[Unwrap(joining)].pc = "done"
    /\ joining' = None
    /\ emitted' = << >>
    /\ bus' = event_send(bus, emitted')
    /\ UNCHANGED <<runners, subscriptions, task, inbox, cmdq, replies, ret, nfeeds,
                   ncmds, nadds, shutdown>>
    /\ UNCHANGED <<fsmVars, query>>

\* a variant that returns without going through the rest of the collected ids
ShutdownEnd_early ==
    /\ shutdown.phase = "removing"
    /\ joining = None
    /\ shutdown' = [shutdown EXCEPT !.phase = "returned"]
    /\ ret' = [call |-> "shutdown", result |-> "Ok"]
    /\ emitted' = << >>
    /\ bus' = event_send(bus, emitted')
    /\ UNCHANGED <<runners, subscriptions, task, inbox, cmdq, replies, joining,
                   nfeeds, ncmds, nadds>>
    /\ UNCHANGED <<fsmVars, query>>

\* shutdown: the loop is over and the call returns Ok(())
ShutdownEnd ==
    /\ shutdown.phase = "removing"
    /\ joining = None
    /\ shutdown.runner_ids \cap DOMAIN runners = {}
    /\ shutdown' = [shutdown EXCEPT !.phase = "returned"]
    /\ ret' = [call |-> "shutdown", result |-> "Ok"]
    /\ emitted' = << >>
    /\ bus' = event_send(bus, emitted')
    /\ UNCHANGED <<runners, subscriptions, task, inbox, cmdq, replies, joining,
                   nfeeds, ncmds, nadds>>
    /\ UNCHANGED <<fsmVars, query>>

\* a variant that hands a new subscriber the events forwarded so far
Subscribe_replays ==
    /\ joining = None
    /\ shutdown.phase = "none"
    /\ bus' = [bus EXCEPT !.subs = Append(@, [open |-> TRUE, recvd |-> bus.forwarded,
                                              since |-> Len(bus.forwarded)])]
    /\ emitted' = << >>
    /\ UNCHANGED <<runners, subscriptions, task, inbox, cmdq, replies, ret, joining,
                   nfeeds, ncmds, nadds, shutdown>>
    /\ UNCHANGED <<fsmVars, query>>

\* subscribe_events: a new subscriber sender is pushed on event_subscribers;
\* since is the number of events the forwarding task had forwarded by then
\* (push and forwarding exclude each other through the mutex)
Subscribe ==
    /\ joining = None
    /\ shutdown.phase = "none"
    /\ bus' = [bus EXCEPT !.subs = Append(@, [open |-> TRUE, recvd |-> << >>,
                                              since |-> Len(bus.forwarded)])]
    /\ emitted' = << >>
    /\ UNCHANGED <<runners, subscriptions, task, inbox, cmdq, replies, ret, joining,
                   nfeeds, ncmds, nadds, shutdown>>
    /\ UNCHANGED <<fsmVars, query>>

\* a subscriber drops the receiver it got from subscribe_events
SubscriberDrop(i) ==
    /\ i \in 1..Len(bus.subs)
    /\ bus.subs[i].open
    /\ bus' = [bus EXCEPT !.subs[i].open = FALSE]
    /\ emitted' = << >>
    /\ UNCHANGED <<runners, subscriptions, task, inbox, cmdq, replies, ret, joining,
                   nfeeds, ncmds, nadds, shutdown>>
    /\ UNCHANGED <<fsmVars, query>>

\* a variant that sends to the subscribers whose receiver lives and keeps
\* the senders of the others in the list
forward_to_keeps_closed(subs, event) ==
    [i \in 1..Len(subs) |->
        IF subs[i].open THEN [subs[i] EXCEPT !.recvd = Append(@, event)] ELSE subs[i]]

\* subs.retain(|tx| tx.send(event.clone()).is_ok()): every subscriber whose
\* receiver lives is sent the event and kept, the others are pruned
forward_to(subs, event) ==
    LET kept == SelectSeq(subs, LAMBDA sub : sub.open)
    IN [i \in 1..Len(kept) |-> [kept[i] EXCEPT !.recvd = Append(@, event)]]

\* a variant of the forwarding task that takes the newest event of the channel
AggregatorForward_newest ==
    /\ bus.chan # << >>
    /\ bus' = [bus EXCEPT
                 !.chan = SubSeq(@, 1, Len(@) - 1),
                 !.forwarded = Append(@, bus.chan[Len(bus.chan)]),
                 !.subs = forward_to(@, bus.chan[Len(bus.chan)])]
    /\ emitted' = << >>
    /\ UNCHANGED <<runners, subscriptions, task, inbox, cmdq, replies, ret, joining,
                   nfeeds, ncmds, nadds, shutdown>>
    /\ UNCHANGED <<fsmVars, query>>

\* the forwarding task spawned by new(): event_rx.recv() yields the oldest
\* event of the channel, which is forwarded to the subscribers
AggregatorForward ==
    /\ bus.chan # << >>
    /\ bus' = [bus EXCEPT
                 !.chan = Tail(@),
                 !.forwarded = Append(@, Head(bus.chan)),
                 !.subs = forward_to(@, Head(bus.chan))]
    /\ emitted' = << >>
    /\ UNCHANGED <<runners, subscriptions, task, inbox, cmdq, replies, ret, joining,
                   nfeeds, ncmds, nadds, shutdown>>
    /\ UNCHANGED <<fsmVars, query>>

\* feed_data(data)
FeedBar(data) ==
    /\ joining = None
    /\ shutdown.phase = "none"
    /\ nfeeds' = nfeeds + 1
    /\ IF data.symbol \notin DOMAIN subscriptions
       THEN /\ ret' = [call |-> "feed_data", data |-> data,
                       result |-> "NoRunnersForSymbol"]
            /\ inbox' = inbox
       ELSE LET runner_ids == subscriptions[data.symbol]
                k == first_failed(runner_ids)
            IN /\ inbox' = [id \in RunnerIds |->
                              IF id \in feed_targets(runner_ids)
                              THEN Append(inbox[id], data) ELSE inbox[id]]
               /\ ret' = IF k = 0
                         THEN [call |-> "feed_data", data |-> data, result |-> "Ok"]
                         ELSE [call |-> "feed_data", data |-> data,
                               result |-> "ChannelClosed", id |-> runner_ids[k]]
    /\ emitted' = << >>
    /\ UNCHANGED <<runners, subscriptions, task, cmdq, replies, joining, ncmds,
                   nadds>>
    /\ bus' = event_send(bus, emitted')
    /\ UNCHANGED <<fsmVars, shutdown, query>>

\* feed_data of a bar of which only the symbol, the close and the timestamp
\* are followed
FeedData(symbol, close_px) ==
    FeedBar([symbol |-> symbol, close |-> close_px, timestamp |-> nfeeds + 1])

\* a command is sent on the command sender of a registered runner, as
\* get_runner_snapshot and get_price_history do; the send fails when the
\* runner has dropped its receiver
SendCommand(id, cmd) ==
    /\ joining = None
    /\ shutdown.phase = "none"
    /\ id \in DOMAIN runners
    /\ ncmds' = ncmds + 1
    /\ cmdq' = IF receiver_open(id) THEN [cmdq EXCEPT ![id] = Append(@, cmd)] ELSE cmdq
    /\ ret' = [call |-> "send_command", id |-> id, cmd |-> cmd,
               result |-> IF receiver_open(id) THEN "Ok" ELSE "SendError"]
    /\ emitted' = << >>
    /\ UNCHANGED <<runners, subscriptions, task, inbox, replies, joining, nfeeds,
                   nadds>>
    /\ bus' = event_send(bus, emitted')
    /\ UNCHANGED <<fsmVars, shutdown, query>>

\* the engine call that sends a query command
query_call(cmd) ==
    IF cmd.type = "GetSnapshot" THEN "get_runner_snapshot" ELSE "get_price_history"

\* get_runner_snapshot / get_price_history up to the wait on the one-shot
\* channel: None at once when the runner is not in the map or the command
\* send fails, the runner having dropped its command receiver
QueryBegin(id, cmd) ==
    /\ joining = None
    /\ shutdown.phase = "none"
    /\ query.phase = "idle"
    /\ ncmds' = ncmds + 1
    /\ IF id \in DOMAIN runners /\ receiver_open(id)
       THEN /\ cmdq' = [cmdq EXCEPT ![id] =
                          Append(@, [response |-> ncmds + 1] @@ cmd)]
            /\ query' = [phase |-> "waiting", id |-> id, call |-> query_call(cmd),
                         response |-> ncmds + 1, slot |-> None]
            /\ ret' = [call |-> query_call(cmd), id |-> id]
       ELSE /\ cmdq' = cmdq
            /\ query' = NoQuery
            /\ ret' = [call |-> query_call(cmd), id |-> id, value |-> None]
    /\ emitted' = << >>
    /\ UNCHANGED <<runners, subscriptions, task, inbox, replies, joining, nfeeds,
                   nadds>>
    /\ bus' = event_send(bus, emitted')
    /\ UNCHANGED <<fsmVars, shutdown>>

\* timeout(100 ms, response_rx) elapses with nothing on the channel: None
QueryTimeout ==
    /\ query.phase = "waiting"
    /\ query.slot = None
    /\ query' = NoQuery
    /\ ret' = [call |-> query.call, id |-> query.id, value |-> None]
    /\ emitted' = << >>
    /\ UNCHANGED <<runners, subscriptions, task, inbox, cmdq, replies, joining,
                   nfeeds, ncmds, nadds>>
    /\ bus' = event_send(bus, emitted')
    /\ UNCHANGED <<fsmVars, shutdown>>

\* response_rx yields the value the runner sent: Some(value)
QueryReply ==
    /\ query.phase = "waiting"
    /\ IsSome(query.slot)
    /\ query' = NoQuery
    /\ ret' = [call |-> query.call, id |-> query.id, value |-> query.slot]
    /\ emitted' = << >>
    /\ UNCHANGED <<runners, subscriptions, task, inbox, cmdq, replies, joining,
                   nfeeds, ncmds, nadds>>
    /\ bus' = event_send(bus, emitted')
    /\ UNCHANGED <<fsmVars, shutdown>>

\* response_rx yields RecvError: the command was dropped with its sender,
\* unhandled, when the runner's task ended: None
QueryReplyDropped ==
    /\ query.phase = "waiting"
    /\ query.slot = None
    /\ \A i \in 1..Len(cmdq[query.id]) : ~IsResponseOf(query, cmdq[query.id][i])
    /\ query' = NoQuery
    /\ ret' = [call |-> query.call, id |-> query.id, value |-> None]
    /\ emitted' = << >>
    /\ UNCHANGED <<runners, subscriptions, task, inbox, cmdq, replies, joining,
                   nfeeds, ncmds, nadds>>
    /\ bus' = event_send(bus, emitted')
    /\ UNCHANGED <<fsmVars, shutdown>>

\* run: select! takes the data branch with a bar; sr is what the strategy
\* callback returns if process_tick calls it
RunnerRecvData(id, sr) ==
    /\ task[id].pc = "running"
    /\ inbox[id] # << >>
    /\ LET out == run_data(task[id].runner, id, Head(inbox[id]), sr)
       IN /\ task' = [task EXCEPT ![id].runner = out.rn,
                                  ![id].pc = out.pc,
                                  ![id].result = out.result]
          /\ emitted' = out.evs
    /\ inbox' = [inbox EXCEPT ![id] = Tail(@)]
    /\ UNCHANGED <<runners, subscriptions, cmdq, replies, ret, joining, nfeeds,
                   ncmds, nadds>>
    /\ bus' = event_send(bus, emitted')
    /\ UNCHANGED <<fsmVars, shutdown, query>>

\* a variant whose recv() yields None as soon as the sender is dropped, with
\* bars still queued
RunnerRecvClosed_eager(id) ==
    /\ task[id].pc = "running"
    /\ id \notin DOMAIN runners
    /\ task' = [task EXCEPT ![id].pc = "returned", ![id].result = "Ok"]
    /\ emitted' = << >>
    /\ UNCHANGED <<runners, subscriptions, inbox, cmdq, replies, ret, joining,
                   nfeeds, ncmds, nadds>>
    /\ bus' = event_send(bus, emitted')
    /\ UNCHANGED <<fsmVars, shutdown, query>>

\* a variant whose loop goes on waiting when recv() yields None
RunnerRecvClosed_continues(id) ==
    /\ task[id].pc = "running"
    /\ inbox[id] = << >>
    /\ id \notin DOMAIN runners
    /\ emitted' = << >>
    /\ UNCHANGED <<runners, subscriptions, task, inbox, cmdq, replies, ret, joining,
                   nfeeds, ncmds, nadds>>
    /\ bus' = event_send(bus, emitted')
    /\ UNCHANGED <<fsmVars, shutdown, query>>

\* run: select! takes the data branch and recv() yields None, because the
\* queue is empty and the engine has dropped the sender; the loop breaks
RunnerRecvClosed(id) ==
    /\ task[id].pc = "running"
    /\ inbox[id] = << >>
    /\ id \notin DOMAIN runners
    /\ task' = [task EXCEPT ![id].pc = "returned", ![id].result = "Ok"]
    /\ emitted' = << >>
    /\ UNCHANGED <<runners, subscriptions, inbox, cmdq, replies, ret, joining,
                   nfeeds, ncmds, nadds>>
    /\ bus' = event_send(bus, emitted')
    /\ UNCHANGED <<fsmVars, shutdown, query>>

\* run: select! takes the command branch
RunnerRecvCommand(id) ==
    /\ task[id].pc = "running"
    /\ cmdq[id] # << >>
    /\ LET out == handle_command(task[id].runner, id, Head(cmdq[id]))
       IN /\ task' = [task EXCEPT ![id].runner = out.rn]
          /\ replies' = [replies EXCEPT ![id] = Some(out.reply)]
          /\ query' = response_send(query, Head(cmdq[id]), out.reply.value)
    /\ cmdq' = [cmdq EXCEPT ![id] = Tail(@)]
    /\ emitted' = << >>
    /\ UNCHANGED <<runners, subscriptions, inbox, ret, joining, nfeeds, ncmds,
                   nadds>>
    /\ bus' = event_send(bus, emitted')
    /\ UNCHANGED <<fsmVars, shutdown>>

\* a variant whose RunnerStopped always carries the normal-shutdown reason
TaskFinish_always_normal(id) ==
    /\ task[id].pc = "returned"
    /\ emitted' = <<[type |-> "RunnerStopped", runner_id |-> id,
                      reason |-> "Normal shutdown"]>>
    /\ task' = [task EXCEPT ![id].pc = "done"]
    /\ inbox' = [inbox EXCEPT ![id] = << >>]
    /\ cmdq' = [cmdq EXCEPT ![id] = << >>]
    /\ UNCHANGED <<runners, subscriptions, replies, ret, joining, nfeeds, ncmds,
                   nadds>>
    /\ bus' = event_send(bus, emitted')
    /\ UNCHANGED <<fsmVars, shutdown, query>>

\* the spawned task after run() has returned: RunnerStopped is sent and the
\* task completes, dropping the runner and with it both receivers
TaskFinish(id) ==
    /\ task[id].pc = "returned"
    /\ emitted' = <<[type |-> "RunnerStopped", runner_id |-> id,
                      reason |-> IF task[id].result = "Ok"
                                 THEN "Normal shutdown" ELSE "Error"]>>
    /\ task' = [task EXCEPT ![id].pc = "done"]
    /\ inbox' = [inbox EXCEPT ![id] = << >>]
    /\ cmdq' = [cmdq EXCEPT ![id] = << >>]
    /\ UNCHANGED <<runners, subscriptions, replies, ret, joining, nfeeds, ncmds,
                   nadds>>
    /\ bus' = event_send(bus, emitted')
    /\ UNCHANGED <<fsmVars, shutdown, query>>

-----------------------------------------------------------------------------
(* Specifications *)

Init == FsmInit /\ EngInit /\ bus = NoBus

\* the same engine with its event stream recorded
InitEvents == FsmInit /\ EngInit /\ bus = [NoBus EXCEPT !.recording = TRUE]

FsmNext ==
    \/ \E a \in Actions : nops < MaxOps /\ Execute(a)
    \/ \E close_px \in Prices : nops < MaxOps /\ Update(close_px)

\* a position created by Position::new, then any calls of its methods
PositionNext ==
    \/ \E price \in Prices : nops < MaxPositionOps /\ UpdateCurrentPrice(price)
    \/ \E stop \in Prices : nops < MaxPositionOps /\ SetStopLoss(stop)
    \/ \E target \in Prices : nops < MaxPositionOps /\ SetTakeProfit(target)
    \/ \E exit_price \in Prices : nops < MaxPositionOps /\ Close(exit_price)

\* entries as table_to_action builds them: the quantity is whatever number
\* the strategy's table holds
AnyQuantityEntries ==
    [type : {"EnterLong", "EnterShort"}, price : {1, 2}, quantity : {-1, 0, 1}]

\* a state machine given such entries, exits and bars
QuantityNext ==
    \/ \E a \in AnyQuantityEntries : nops < MaxOps /\ Execute(a)
    \/ \E px \in {1, 2} :
          nops < MaxOps /\ Execute([type |-> "ExitPosition", price |-> px])
    \/ \E close_px \in {1, 2} : nops < MaxOps /\ Update(close_px)

\* the actions applied once the transition log is all but full
LogActions ==
    {[type |-> "EnterLong", price |-> 1, quantity |-> 1],
     [type |-> "ExitPosition", price |-> 1]}

\* a state machine taken through analysis cycles until its transition log is
\* nearly full, and then through entries and exits as well
LogNext ==
    \/ \E type \in {"StartAnalyzing", "CancelAnalysis"}, reason \in Reasons :
          nops < MaxLogOps /\ Execute([type |-> type, reason |-> reason])
    \/ \E a \in LogActions :
          /\ nops < MaxLogOps
          /\ Len(sm.transition_history) >= MAX_TRANSITION_HISTORY - 1
          /\ Execute(a)

\* the steps of the task spawned for runner id, its strategy answering from results
RunnerStep(id, results) ==
    \/ \E sr \in results : RunnerRecvData(id, sr)
    \/ RunnerRecvClosed(id)
    \/ RunnerRecvCommand(id)
    \/ TaskFinish(id)

\* one runner on one symbol, never sent a command; its bars close at one of
\* two prices and its strategy returns actions over those prices, for one unit
OneId == "a"

OneSymbol == "BTCUSDT"

TickPrices == {1, 2}

TickActions ==
    {a \in Actions :
        /\ a.type # "NoAction"
        /\ a.type \in {"EnterLong", "EnterShort"} => a.price \in TickPrices /\ a.quantity = 1
        /\ a.type = "ExitPosition" => a.price \in TickPrices
        /\ a.type = "UpdateStopLoss" => a.new_stop \in TickPrices
        /\ a.type = "UpdateTakeProfit" => a.new_target \in TickPrices}

TickResults(state) ==
    {sr \in StrategyResults(state) : sr.kind = "action" => sr.action \in TickActions}

TickNext ==
    \/ \E w \in WindowSizes, stop_on_error \in BOOLEAN :
          nadds = 0 /\ AddRunner(OneId, OneSymbol, w, stop_on_error)
    \/ RemoveRunnerBegin(OneId)
    \/ RemoveRunnerEnd
    \/ \E close_px \in TickPrices : nfeeds < MaxTicks /\ FeedData(OneSymbol, close_px)
    \/ \E sr \in TickResults(task[OneId].runner.state_machine.state) :
          RunnerRecvData(OneId, sr)
    \/ RunnerRecvClosed(OneId)
    \/ TaskFinish(OneId)

\* the strategy of the runner that is sent commands answers from a smaller set
EngineStrategyResults(state) ==
    IF state = "Idle"
    THEN {[kind |-> "err"], [kind |-> "nil"],
          [kind |-> "table", signal |-> <<"bullish">>, confidence |-> <<1>>]}
    ELSE {[kind |-> "err"], [kind |-> "nil"],
          [kind |-> "action",
           action |-> [type |-> "EnterLong", price |-> 2, quantity |-> 1]],
          [kind |-> "action", action |-> [type |-> "ExitPosition", price |-> 2]]}

\* every bar fed to the two-runner engine closes at the same price
EnginePrices == {2}

\* one runner with such a strategy, sent commands on its command channel
ControlNext ==
    \/ \E w \in WindowSizes, stop_on_error \in BOOLEAN :
          nadds = 0 /\ AddRunner(OneId, OneSymbol, w, stop_on_error)
    \/ RemoveRunnerBegin(OneId)
    \/ RemoveRunnerEnd
    \/ \E close_px \in TickPrices : nfeeds < MaxFeeds /\ FeedData(OneSymbol, close_px)
    \/ \E cmd \in Commands : ncmds < MaxCmds /\ SendCommand(OneId, cmd)
    \/ \E sr \in EngineStrategyResults(task[OneId].runner.state_machine.state) :
          RunnerRecvData(OneId, sr)
    \/ RunnerRecvClosed(OneId)
    \/ RunnerRecvCommand(OneId)
    \/ TaskFinish(OneId)

\* the strategies of the two-runner engine fail or return nothing: routing
\* depends on a strategy only through the error that ends its runner
RoutingStrategyResults == {[kind |-> "err"], [kind |-> "nil"]}

\* two runners, on the same symbol or on different ones
EngNext ==
    \/ \E id \in RunnerIds, symbol \in Symbols, w \in WindowSizes,
          stop_on_error \in BOOLEAN :
          nadds < MaxAdds /\ AddRunner(id, symbol, w, stop_on_error)
    \/ \E id \in RunnerIds : RemoveRunnerBegin(id)
    \/ RemoveRunnerEnd
    \/ \E symbol \in Symbols, close_px \in EnginePrices :
          nfeeds < MaxFeeds /\ FeedData(symbol, close_px)
    \/ \E id \in RunnerIds :
          \E sr \in RoutingStrategyResults : RunnerRecvData(id, sr)
    \/ \E id \in RunnerIds : RunnerRecvClosed(id)
    \/ \E id \in RunnerIds : TaskFinish(id)

\* the two-runner engine, shut down at any moment
ShutdownNext ==
    \/ \E id \in RunnerIds, symbol \in Symbols, w \in WindowSizes,
          stop_on_error \in BOOLEAN :
          nadds < MaxAdds /\ AddRunner(id, symbol, w, stop_on_error)
    \/ \E symbol \in Symbols, close_px \in EnginePrices :
          nfeeds < MaxFeeds /\ FeedData(symbol, close_px)
    \/ \E id \in RunnerIds :
          \E sr \in RoutingStrategyResults : RunnerRecvData(id, sr)
    \/ \E id \in RunnerIds : RunnerRecvClosed(id)
    \/ \E id \in RunnerIds : TaskFinish(id)
    \/ ShutdownBegin
    \/ \E id \in RunnerIds : ShutdownRemove(id)
    \/ ShutdownJoin
    \/ ShutdownEnd

\* the event stream of the engine: a runner is added, fed, removed and
\* added again while subscribers come and go
EventsNext ==
    \/ \E w \in WindowSizes :
          nadds < MaxEventAdds /\ AddRunner(OneId, OneSymbol, w, TRUE)
    \/ OneId \in DOMAIN runners /\ RemoveRunnerBegin(OneId)
    \/ RemoveRunnerEnd
    \/ \E close_px \in EnginePrices :
          nfeeds < MaxEventFeeds /\ FeedData(OneSymbol, close_px)
    \/ \E sr \in RoutingStrategyResults : RunnerRecvData(OneId, sr)
    \/ RunnerRecvClosed(OneId)
    \/ TaskFinish(OneId)
    \/ Len(bus.subs) < MaxSubs /\ Subscribe
    \/ \E i \in 1..MaxSubs : SubscriberDrop(i)
    \/ AggregatorForward

\* the capacities a window is created with: max_size is any usize
WindowCapacities == 0..MaxCapacity

\* one runner whose window has any of these capacities; every bar it takes
\* is pushed on the window, whether the strategy then fails or not
WindowNext ==
    \/ \E w \in WindowCapacities :
          nadds = 0 /\ AddRunner(OneId, OneSymbol, w, FALSE)
    \/ \E close_px \in TickPrices : nfeeds < MaxTicks /\ FeedData(OneSymbol, close_px)
    \/ \E sr \in RoutingStrategyResults : RunnerRecvData(OneId, sr)

\* bars with their open, high, low and close: any values can be fed
OhlcBars ==
    [symbol : {OneSymbol}, timestamp : {nfeeds + 1},
     open : {0, 1}, high : {1, 2}, low : {1, 2}, close : {0, 1}]

\* one runner fed such bars
OhlcNext ==
    \/ \E w \in WindowSizes, stop_on_error \in BOOLEAN :
          nadds = 0 /\ AddRunner(OneId, OneSymbol, w, stop_on_error)
    \/ \E data \in OhlcBars : nfeeds < MaxFeeds /\ FeedBar(data)
    \/ \E sr \in RoutingStrategyResults : RunnerRecvData(OneId, sr)
    \/ TaskFinish(OneId)

\* the commands get_runner_snapshot and get_price_history send
QueryCommands ==
    [type : {"GetSnapshot"}] \cup [type : {"GetPriceHistory"}, count : {None, Some(1)}]

\* one runner that is queried while it is fed, fails, ends and is removed;
\* the other id is never registered.  add_runner and remove_runner borrow
\* the engine exclusively, so neither is called while a query waits
QueryNext ==
    \/ \E w \in WindowSizes, stop_on_error \in BOOLEAN :
          nadds = 0 /\ query.phase = "idle"
             /\ AddRunner(OneId, OneSymbol, w, stop_on_error)
    \/ query.phase = "idle" /\ OneId \in DOMAIN runners /\ RemoveRunnerBegin(OneId)
    \/ RemoveRunnerEnd
    \/ \E close_px \in EnginePrices :
          nfeeds < MaxFeeds /\ FeedData(OneSymbol, close_px)
    \/ \E id \in RunnerIds, cmd \in QueryCommands :
          ncmds < MaxCmds /\ QueryBegin(id, cmd)
    \/ QueryTimeout
    \/ QueryReply
    \/ QueryReplyDropped
    \/ \E sr \in RoutingStrategyResults : RunnerRecvData(OneId, sr)
    \/ RunnerRecvClosed(OneId)
    \/ RunnerRecvCommand(OneId)
    \/ TaskFinish(OneId)

\* the stand-alone state machine
SpecFSM == Init /\ [][FsmNext]_vars

\* the stand-alone position
InitPosition == PositionInit /\ EngInit /\ bus = NoBus

SpecPosition == InitPosition /\ [][PositionNext]_vars

\* one runner task fed bars by the engine
SpecTick == Init /\ [][TickNext]_vars

\* one runner task fed bars and sent commands
SpecControl == Init /\ [][ControlNext]_vars

\* the engine with two runner tasks
Spec == Init /\ [][EngNext]_vars

\* the scheduler runs every task that can take a step; nothing obliges the
\* engine's caller to make another call
FairSpecControl ==
    /\ SpecControl
    /\ WF_vars(RunnerStep(OneId, EngineStrategyResults(task[OneId].runner.state_machine.state)))

\* the commands that change a runner's status
StatusCommands == {cmd \in Commands : cmd.type \in {"Pause", "Resume", "Stop"}}

\* one runner that is paused, resumed, stopped and removed while bars are fed;
\* its strategy fails or returns nothing
RemoveNext ==
    \/ \E w \in WindowSizes, stop_on_error \in BOOLEAN :
          nadds = 0 /\ AddRunner(OneId, OneSymbol, w, stop_on_error)
    \/ RemoveRunnerBegin(OneId)
    \/ RemoveRunnerEnd
    \/ \E close_px \in EnginePrices : nfeeds < MaxFeeds /\ FeedData(OneSymbol, close_px)
    \/ \E cmd \in StatusCommands : ncmds < MaxCmds /\ SendCommand(OneId, cmd)
    \/ \E sr \in RoutingStrategyResults : RunnerRecvData(OneId, sr)
    \/ RunnerRecvClosed(OneId)
    \/ RunnerRecvCommand(OneId)
    \/ TaskFinish(OneId)

SpecRemove == Init /\ [][RemoveNext]_vars

\* the scheduler runs the runner task whenever it can take a step, and the
\* await of the task handle inside remove_runner returns once the task has
\* completed
FairSpecRemove ==
    /\ SpecRemove
    /\ WF_vars(RunnerStep(OneId, RoutingStrategyResults))
    /\ WF_vars(RemoveRunnerEnd)

\* the engine with two runner tasks, ended by shutdown()
SpecShutdown == Init /\ [][ShutdownNext]_vars

\* the engine with its event channel, forwarding task and subscribers
SpecEvents == InitEvents /\ [][EventsNext]_vars

\* the state machine given entries of any quantity
SpecQuantity == Init /\ [][QuantityNext]_vars

\* the state machine with a long transition log
SpecLog == Init /\ [][LogNext]_vars

\* the bar window of one runner, the bars pushed being those of the
\* TickReceived events recorded
SpecWindow == InitEvents /\ [][WindowNext]_vars

\* the engine routing bars of any content to one runner
SpecOhlc == Init /\ [][OhlcNext]_vars

\* the engine answering queries about one runner
SpecQuery == Init /\ [][QueryNext]_vars

\* the timer of the query's timeout fires, and a call whose one-shot channel
\* has a value or has lost its sender is woken
FairSpecQuery ==
    SpecQuery /\ WF_vars(QueryTimeout) /\ WF_vars(QueryReply) /\ WF_vars(QueryReplyDropped)

\* the one runner of SpecTick with the events it sends recorded
SpecTickEvents == InitEvents /\ [][TickNext]_vars

-----------------------------------------------------------------------------
(* Properties of the stand-alone state machine (SpecFSM) *)

\* C1: after any sequence of execute and update calls on a fresh state
\* machine, the state is InPosition exactly when a position is present and
\* open; in Idle and Analyzing no position is present.
C1_InPositionIffOpenPosition ==
    /\ (sm.state = "InPosition") <=>
          (IsSome(sm.position) /\ ~is_closed(Unwrap(sm.position)))
    /\ (sm.state \in {"Idle", "Analyzing"} => sm.position = None)

\* after an exit, a second position entered and held across a bar
C1_Witness ==
    /\ sm.state = "InPosition"
    /\ IsSome(sm.position)
    /\ op.kind = "update"
    /\ \E i \in 1..Len(sm.transition_history) :
          /\ sm.transition_history[i].from = "InPosition"
          /\ sm.transition_history[i].to = "Idle"

LegalTransitions ==
    {<<"Idle", "Analyzing">>, <<"Analyzing", "Idle">>,
     <<"Analyzing", "InPosition">>, <<"InPosition", "Idle">>}

\* the preconditions of the table of actions, entries apart
PreconditionUnmet(m, a) ==
    \/ a.type \in {"ExitPosition", "UpdateStopLoss", "UpdateTakeProfit"} /\ m.position = None
    \/ a.type = "StartAnalyzing" /\ m.state # "Idle"
    \/ a.type = "CancelAnalysis" /\ m.state # "Analyzing"

\* C2 as stated: the only state changes are the four legal transitions, and
\* an entry applied while Idle or InPosition leaves state and position unchanged.
C2_OnlyLegalTransitions ==
    [][/\ sm'.state # sm.state => <<sm.state, sm'.state>> \in LegalTransitions
       /\ (op'.kind = "execute" /\ is_entry(op'.action)
           /\ sm.state \in {"Idle", "InPosition"})
          => (sm'.state = sm.state /\ sm'.position = sm.position)]_vars

\* C2 amended: the state changes are the four legal transitions and
\* Idle -> InPosition, which only an entry makes; an entry applied in any
\* state installs a new open position and sets InPosition; any other action
\* whose precondition is unmet leaves state and position unchanged.
C2_TransitionsWithEntryFromAnyState ==
    [][/\ sm'.state # sm.state =>
             <<sm.state, sm'.state>> \in LegalTransitions \cup {<<"Idle", "InPosition">>}
       /\ (sm.state = "Idle" /\ sm'.state = "InPosition")
             => (op'.kind = "execute" /\ is_entry(op'.action))
       /\ (op'.kind = "execute" /\ is_entry(op'.action))
             => /\ sm'.state = "InPosition"
                /\ IsSome(sm'.position)
                /\ Unwrap(sm'.position).entry_price = op'.action.price
                /\ ~is_closed(Unwrap(sm'.position))
       /\ (op'.kind = "execute" /\ PreconditionUnmet(sm, op'.action))
             => (sm'.state = sm.state /\ sm'.position = sm.position)]_vars

\* an entry applied while Idle, and later a dropped action in Analyzing
C2_Witness ==
    /\ Len(sm.transition_history) >= 3
    /\ sm.transition_history[1].from = "Idle"
    /\ sm.transition_history[1].to = "InPosition"
    /\ sm.state = "Analyzing"
    /\ op.kind = "execute"
    /\ op.action.type = "ExitPosition"

\* the risk predicates of a position at a price: stop, then target
StopAt(pos, px) ==
    /\ IsSome(pos.stop_loss)
    /\ \/ pos.side = "Long" /\ px <= Unwrap(pos.stop_loss)
       \/ pos.side = "Short" /\ px >= Unwrap(pos.stop_loss)

TargetAt(pos, px) ==
    /\ IsSome(pos.take_profit)
    /\ \/ pos.side = "Long" /\ px >= Unwrap(pos.take_profit)
       \/ pos.side = "Short" /\ px <= Unwrap(pos.take_profit)

\* C3: whenever update(bar) is called with a position open and the stop or
\* the target predicate true at bar.close, afterwards there is no position
\* and the state is Idle.
C3_AutoExit ==
    [][(/\ op'.kind = "update"
        /\ IsSome(sm.position)
        /\ \/ StopAt(Unwrap(sm.position), op'.data.close)
           \/ TargetAt(Unwrap(sm.position), op'.data.close))
       => (sm'.position = None /\ sm'.state = "Idle")]_vars

\* an update call that took the position out
C3_Witness ==
    /\ op.kind = "update"
    /\ op.exited
    /\ sm.state = "Idle"
    /\ sm.position = None

-----------------------------------------------------------------------------
(* Properties of one runner task fed bars (SpecTick) *)

\* the step in which runner id's loop takes a bar from its data inbox
TookBar(id) ==
    /\ task[id].pc = "running"
    /\ inbox[id] # << >>
    /\ inbox'[id] = Tail(inbox[id])

\* the step in which runner id processes the bar it takes as a tick
ProcessedTick(id) ==
    /\ TookBar(id)
    /\ is_active(task[id].runner.status)
    /\ Head(inbox[id]).symbol = task[id].runner.symbol

\* the place of an event kind in the order of one tick, 0 for any other kind
TickEventRank(e) ==
    CASE e.type = "TickReceived" -> 1
      [] e.type = "ActionExecuted" -> 2
      [] e.type = "PositionOpened" -> 3
      [] e.type = "StateTransition" -> 4
      [] e.type \in {"PositionUpdated", "PositionClosed"} -> 5
      [] OTHER -> 0

\* C4: the events a runner emits for one tick start with TickReceived and
\* come in the order TickReceived, ActionExecuted, PositionOpened,
\* StateTransition, then PositionUpdated or PositionClosed, each at most once
\* and never both PositionUpdated and PositionClosed.
C4_TickEventOrder ==
    [][ProcessedTick(OneId) =>
          /\ emitted' # << >>
          /\ emitted'[1].type = "TickReceived"
          /\ \A i, j \in 1..Len(emitted') :
                (/\ i < j
                 /\ TickEventRank(emitted'[i]) > 0
                 /\ TickEventRank(emitted'[j]) > 0)
                => TickEventRank(emitted'[i]) < TickEventRank(emitted'[j])]_vars

\* a tick on which an entry taken in Analyzing emits all five kinds
C4_Witness ==
    [i \in 1..Len(emitted) |-> emitted[i].type] =
        <<"TickReceived", "ActionExecuted", "PositionOpened", "StateTransition",
          "PositionUpdated">>

\* C5 as stated: on every tick at whose start the runner holds a position and
\* at whose end it holds none, the runner emits PositionClosed.
C5_PositionClosedOnExit ==
    [][(/\ ProcessedTick(OneId)
        /\ IsSome(task[OneId].runner.state_machine.position)
        /\ task'[OneId].runner.state_machine.position = None)
       => \E i \in 1..Len(emitted') : emitted'[i].type = "PositionClosed"]_vars

-----------------------------------------------------------------------------
(* Properties of the engine's routing (Spec) *)

\* a step that is a call of feed_data
FeedCall == nfeeds' = nfeeds + 1

\* the bar of the feed_data call reaches the back of runner id's inbox
Delivered(id) == inbox'[id] = Append(inbox[id], ret'.data)

\* the runners registered for a symbol
RegisteredFor(symbol) == {id \in DOMAIN runners : runners[id].symbol = symbol}

\* bars queued in the order the engine sent them
InSendOrder(q) ==
    \A i, j \in 1..Len(q) : i < j => q[i].timestamp < q[j].timestamp

\* C6 as stated: every feed_data(bar) puts the bar into the inbox of every
\* runner registered for the bar's symbol.
C6_EveryRegisteredRunnerReceives ==
    [][FeedCall => \A id \in RegisteredFor(ret'.data.symbol) : Delivered(id)]_vars

\* C6 amended: a feed_data(bar) that returns Ok puts exactly one bar equal to
\* bar at the back of the inbox of every runner registered for bar.symbol and
\* of no other; every inbox holds bars in the order the engine sent them, and
\* a runner takes them from the front one at a time, the tick it processes
\* being the bar it took.
C6_OkFeedReachesEveryRegisteredRunner ==
    [][/\ (FeedCall /\ ret'.result = "Ok") =>
             /\ RegisteredFor(ret'.data.symbol) # {}
             /\ \A id \in RunnerIds :
                   IF id \in RegisteredFor(ret'.data.symbol)
                   THEN Delivered(id)
                   ELSE inbox'[id] = inbox[id]
       /\ \A id \in RunnerIds :
             /\ InSendOrder(inbox'[id])
             /\ (TookBar(id) /\ emitted' # << >>) =>
                   /\ emitted'[1].type = "TickReceived"
                   /\ emitted'[1].runner_id = id
                   /\ emitted'[1].data = Head(inbox[id])]_vars

\* both runners of one symbol hold the second bar, one has processed the first
C6_Witness ==
    /\ ret.call = "feed_data"
    /\ ret.result = "Ok"
    /\ ret.data.timestamp = 2
    /\ RegisteredFor(ret.data.symbol) = RunnerIds
    /\ inbox["a"] = <<ret.data>>
    /\ Len(inbox["b"]) = 2
    /\ inbox["b"][Len(inbox["b"])] = ret.data
    /\ Len(task["a"].runner.window) = 1

\* C7 as stated: feed_data returns Ok exactly when every send succeeds, and
\* no call leaves the bar with some but not all of the symbol's subscribers.
C7_NeverPartiallyRoutes ==
    [][(FeedCall /\ ret'.data.symbol \in DOMAIN subscriptions) =>
          LET runner_ids == subscriptions[ret'.data.symbol]
              ids == {runner_ids[i] : i \in 1..Len(runner_ids)}
          IN /\ (ret'.result = "Ok") <=> (\A id \in ids : Delivered(id))
             /\ ~ ((\E id \in ids : Delivered(id)) /\ (\E id \in ids : ~Delivered(id)))]_vars

\* C7 amended: feed_data sends in subscription order and stops at the first
\* subscriber whose receiver is closed.  With none closed it returns Ok and
\* every subscriber holds the bar; otherwise it returns ChannelClosed naming
\* the first closed subscriber, the bar is delivered to exactly the
\* subscribers ahead of it, and no other inbox changes.
C7_FeedStopsAtFirstClosedSubscriber ==
    [][(FeedCall /\ ret'.data.symbol \in DOMAIN subscriptions) =>
          LET runner_ids == subscriptions[ret'.data.symbol]
              closed == {i \in 1..Len(runner_ids) : task[runner_ids[i]].pc = "done"}
              first == CHOOSE k \in closed : \A j \in closed : k <= j
          IN /\ IF closed = {}
                THEN /\ ret'.result = "Ok"
                     /\ \A i \in 1..Len(runner_ids) : Delivered(runner_ids[i])
                ELSE /\ ret'.result = "ChannelClosed"
                     /\ ret'.id = runner_ids[first]
                     /\ \A i \in 1..Len(runner_ids) :
                           IF i < first
                           THEN Delivered(runner_ids[i])
                           ELSE inbox'[runner_ids[i]] = inbox[runner_ids[i]]
             /\ \A id \in RunnerIds :
                   (\A i \in 1..Len(runner_ids) : runner_ids[i] # id)
                      => inbox'[id] = inbox[id]]_vars

\* a call that failed at the second subscriber after the first took the bar
C7_Witness ==
    /\ ret.call = "feed_data"
    /\ ret.result = "ChannelClosed"
    /\ ret.data.symbol \in DOMAIN subscriptions
    /\ subscriptions[ret.data.symbol] = <<"a", "b">>
    /\ ret.id = "b"
    /\ inbox["a"] # << >>
    /\ inbox["a"][Len(inbox["a"])] = ret.data

-----------------------------------------------------------------------------
(* Properties of one runner task sent commands (SpecControl, FairSpecControl) *)

\* the step in which runner id's loop takes a command
TookCommand(id) ==
    /\ task[id].pc = "running"
    /\ cmdq[id] # << >>
    /\ cmdq'[id] = Tail(cmdq[id])

\* C8 as stated: once the runner has handled Stop, its task eventually
\* completes (the step that emits RunnerStopped), whatever the engine's
\* caller does afterwards.
C8_StopTerminatesTask ==
    (is_stopped(task[OneId].runner.status) /\ task[OneId].pc = "running")
        ~> (task[OneId].pc = "done")

\* C9: Pause replies true exactly when the status is Running and then sets
\* Paused; Resume replies true exactly when the status is Paused and then
\* sets Running; Stop replies true and sets Stopped; a failed command and any
\* other step leave the status alone, and a Stopped runner stays Stopped.
C9_StatusChanges ==
    [][LET status == task[OneId].runner.status
           status_after == task'[OneId].runner.status
           cmd == Head(cmdq[OneId])
           success == Unwrap(replies'[OneId]).value
       IN /\ TookCommand(OneId) =>
                /\ IsSome(replies'[OneId])
                /\ Unwrap(replies'[OneId]).cmd = cmd.type
                /\ cmd.type = "Pause" =>
                      /\ success = (status = "Running")
                      /\ status_after = IF success THEN "Paused" ELSE status
                /\ cmd.type = "Resume" =>
                      /\ success = (status = "Paused")
                      /\ status_after = IF success THEN "Running" ELSE status
                /\ cmd.type = "Stop" =>
                      /\ success = TRUE
                      /\ status_after = "Stopped"
                /\ cmd.type \in {"GetSnapshot", "GetPriceHistory"} =>
                      status_after = status
          /\ (task[OneId].pc # "none" /\ status_after # status) => TookCommand(OneId)
          /\ (task[OneId].pc # "none" /\ status = "Stopped") => status_after = "Stopped"]_vars

\* a stopped runner has refused a Resume
C9_Witness ==
    /\ is_stopped(task[OneId].runner.status)
    /\ IsSome(replies[OneId])
    /\ Unwrap(replies[OneId]).cmd = "Resume"
    /\ Unwrap(replies[OneId]).value = FALSE

\* C10: a bar taken while the runner is Paused or Stopped emits nothing and
\* leaves the runner (window, state machine with position and context,
\* statistics) as it was; a bar processed is the bar just taken, pushed at
\* the back of the window; Resume emits nothing, touches none of these and
\* puts no bar back in the inbox.
C10_InactiveRunnerDiscardsBars ==
    [][LET rn == task[OneId].runner
           rn_after == task'[OneId].runner
       IN /\ (TookBar(OneId) /\ ~is_active(rn.status)) =>
                /\ emitted' = << >>
                /\ rn_after = rn
          /\ (TookBar(OneId) /\ is_active(rn.status)) =>
                /\ emitted' # << >>
                /\ emitted'[1].data = Head(inbox[OneId])
                /\ rn_after.window # << >>
                /\ rn_after.window[Len(rn_after.window)] = Head(inbox[OneId])
                /\ \A i \in 1..(Len(rn_after.window) - 1) :
                      \E j \in 1..Len(rn.window) : rn_after.window[i] = rn.window[j]
          /\ (TookCommand(OneId) /\ Head(cmdq[OneId]).type = "Resume") =>
                /\ emitted' = << >>
                /\ inbox' = inbox
                /\ rn_after.window = rn.window
                /\ rn_after.state_machine = rn.state_machine
                /\ rn_after.stats = rn.stats]_vars

\* paused, the runner dropped the first bar; resumed, it processed only the second
C10_Witness ==
    /\ nfeeds = 2
    /\ inbox[OneId] = << >>
    /\ is_active(task[OneId].runner.status)
    /\ Len(task[OneId].runner.window) = 1
    /\ task[OneId].runner.window[1].timestamp = 2
    /\ IsSome(replies[OneId])
    /\ Unwrap(replies[OneId]).cmd = "Resume"
    /\ Unwrap(replies[OneId]).value = TRUE

\* C11 as stated: bars and commands are handled in arrival order.  When the
\* engine's last call sent the one command now waiting, every bar fed so far
\* arrived before it, so a Running runner handles that command only with
\* its inbox empty.
C11_CommandsAfterEarlierBars ==
    [][(/\ TookCommand(OneId)
        /\ is_active(task[OneId].runner.status)
        /\ ret.call = "send_command"
        /\ Len(cmdq[OneId]) = 1)
       => inbox[OneId] = << >>]_vars

\* C12: a GetSnapshot command is answered in one step between ticks with a
\* snapshot whose status, state, position, context and statistics are the
\* runner's own at that moment, the runner being left as it was; while no
\* bar has been fed the snapshot shows Idle and ticks_processed = 0.
C12_SnapshotIsCurrent ==
    [][(TookCommand(OneId) /\ Head(cmdq[OneId]).type = "GetSnapshot") =>
          LET rn == task[OneId].runner
              snapshot == Unwrap(replies'[OneId]).value
          IN /\ IsSome(replies'[OneId])
             /\ Unwrap(replies'[OneId]).cmd = "GetSnapshot"
             /\ snapshot.runner_id = OneId
             /\ snapshot.status = rn.status
             /\ snapshot.current_state = rn.state_machine.state
             /\ snapshot.position = rn.state_machine.position
             /\ snapshot.context = rn.state_machine.context
             /\ snapshot.stats = rn.stats
             /\ task'[OneId].runner = rn
             /\ emitted' = << >>
             /\ nfeeds = 0 =>
                   /\ snapshot.current_state = "Idle"
                   /\ snapshot.stats.ticks_processed = 0]_vars

\* a snapshot of a runner that holds a position after two ticks
C12_Witness ==
    /\ IsSome(replies[OneId])
    /\ Unwrap(replies[OneId]).cmd = "GetSnapshot"
    /\ Unwrap(replies[OneId]).value.current_state = "InPosition"
    /\ IsSome(Unwrap(replies[OneId]).value.position)
    /\ Unwrap(replies[OneId]).value.stats.ticks_processed = 2

\* C13: remove_runner(id) on a registered runner takes the runner out of the
\* runner map and the routing table before it waits, returns only after the
\* task has completed, with the task's result (Ok or the error), and always
\* returns, whatever the runner's status.
C13_RemoveRunnerCompletes ==
    /\ [][(joining = None /\ IsSome(joining')) =>
             /\ Unwrap(joining') \in DOMAIN runners
             /\ Unwrap(joining') \notin DOMAIN runners'
             /\ \A symbol \in DOMAIN subscriptions' :
                   \A i \in 1..Len(subscriptions'[symbol]) :
                      subscriptions'[symbol][i] # Unwrap(joining')]_vars
    /\ [][(IsSome(joining) /\ joining' = None) =>
             /\ task[Unwrap(joining)].pc = "done"
             /\ ret'.call = "remove_runner"
             /\ ret'.result = task[Unwrap(joining)].result
             /\ ret'.result \in {"Ok", "Err"}]_vars
    /\ IsSome(joining) ~> (joining = None)

\* a paused runner with a bar still queued has been removed and joined
C13_Witness ==
    /\ ret.call = "remove_runner"
    /\ ret.result = "Ok"
    /\ joining = None
    /\ task[OneId].pc = "done"
    /\ is_paused(task[OneId].runner.status)
    /\ nfeeds = 1
    /\ task[OneId].runner.window = << >>

-----------------------------------------------------------------------------
(* Properties of shutdown (SpecShutdown) *)

\* C14: once shutdown() has returned, no runner is registered, the routing
\* table is empty, no removal is pending and the task of every runner that
\* was registered when shutdown was called has completed, whether it
\* returned Ok or an error.
C14_ShutdownComplete ==
    shutdown.phase = "returned" =>
       /\ DOMAIN runners = {}
       /\ DOMAIN subscriptions = {}
       /\ joining = None
       /\ \A id \in shutdown.runner_ids : task[id].pc = "done"

\* shutdown has returned after removing two runners, one of which failed
C14_Witness ==
    /\ shutdown.phase = "returned"
    /\ shutdown.runner_ids = RunnerIds
    /\ \E id \in RunnerIds : task[id].result = "Err"
    /\ \E id \in RunnerIds : task[id].result = "Ok"

\* C15 as stated: shutdown() returns Ok exactly when every runner it removed
\* ended with Ok, and an error when a removal failed.
C15_ShutdownAggregatesResults ==
    shutdown.phase = "returned" =>
       ((ret.result = "Ok") <=> (\A id \in shutdown.runner_ids : task[id].result = "Ok"))

-----------------------------------------------------------------------------
(* Properties of the event stream (SpecEvents) *)

\* the events in the order they were sent on the global channel: those
\* already forwarded, then those still in the channel
EventStream == bus.forwarded \o bus.chan

\* the event at position j of the stream is a kind of event of runner id
IsEventOf(j, id, type) ==
    EventStream[j].runner_id = id /\ EventStream[j].type = type

\* C16: in the event stream every event of a runner other than RunnerStarted
\* comes after a RunnerStarted of that runner, with no RunnerStopped of the
\* runner between the two: RunnerStarted is the first event of each
\* registration.
C16_RunnerStartedFirst ==
    \A j \in 1..Len(EventStream) :
       EventStream[j].type # "RunnerStarted" =>
          \E i \in 1..(j - 1) :
             /\ IsEventOf(i, EventStream[j].runner_id, "RunnerStarted")
             /\ \A k \in (i + 1)..(j - 1) :
                   ~IsEventOf(k, EventStream[j].runner_id, "RunnerStopped")

\* a runner processed a bar, stopped, and was registered again under the
\* same id
C16_Witness ==
    \E i, j, k \in 1..Len(EventStream) :
       /\ i < j /\ j < k
       /\ IsEventOf(i, OneId, "TickReceived")
       /\ IsEventOf(j, OneId, "RunnerStopped")
       /\ IsEventOf(k, OneId, "RunnerStarted")

\* how many events of a kind runner id has in the stream
EventCount(id, type) ==
    Cardinality({i \in 1..Len(EventStream) : IsEventOf(i, id, type)})

\* C17: the step in which a runner task completes sends exactly one event,
\* the RunnerStopped of that runner, whose reason is the normal-shutdown
\* reason exactly when run() returned Ok; the stream holds one RunnerStopped
\* for each task of the runner that has completed and none for a task still
\* at work; and no event of the registration follows its RunnerStopped (the
\* next event of that runner id, if any, is the RunnerStarted of a new
\* registration).
C17_RunnerStoppedOncePerTask ==
    /\ [][\A id \in RunnerIds :
            (task[id].pc = "returned" /\ task'[id].pc = "done") =>
               /\ Len(emitted') = 1
               /\ emitted'[1].type = "RunnerStopped"
               /\ emitted'[1].runner_id = id
               /\ (emitted'[1].reason = "Normal shutdown") <=> (task[id].result = "Ok")
               /\ (emitted'[1].reason = "Error") <=> (task[id].result = "Err")]_vars
    /\ [](\A id \in RunnerIds :
            EventCount(id, "RunnerStopped") =
               EventCount(id, "RunnerStarted")
                  - (IF task[id].pc \in {"running", "returned"} THEN 1 ELSE 0))
    /\ [](\A i, j \in 1..Len(EventStream) :
            (/\ i < j
             /\ EventStream[i].type = "RunnerStopped"
             /\ EventStream[j].runner_id = EventStream[i].runner_id)
            => \E k \in (i + 1)..j :
                  IsEventOf(k, EventStream[i].runner_id, "RunnerStarted"))

\* a task that failed and a later task of the same runner id that returned
\* Ok have both completed: the stream holds the two RunnerStopped events
C17_Witness ==
    \E i, j \in 1..Len(EventStream) :
       /\ i < j
       /\ IsEventOf(i, OneId, "RunnerStopped")
       /\ EventStream[i].reason = "Error"
       /\ IsEventOf(j, OneId, "RunnerStopped")
       /\ EventStream[j].reason = "Normal shutdown"
       /\ \E k \in 1..(i - 1) : IsEventOf(k, OneId, "Error")

\* q is the end of the sequence s
IsSuffix(q, s) ==
    /\ Len(q) <= Len(s)
    /\ q = SubSeq(s, Len(s) - Len(q) + 1, Len(s))

\* C18: events enter the stream in the order they are sent (the events of one
\* step of a runner in their emission order, after everything sent before);
\* a forwarding step takes the oldest event of the channel and delivers it
\* to every subscriber whose receiver lives, in the subscribers' order, the
\* others being pruned; and what each subscriber has received is the end of
\* the forwarded sequence, so all subscribers see the same order, that of
\* the channel.
C18_AggregatorIsFifo ==
    /\ [][EventStream' = EventStream \o emitted']_vars
    /\ [][bus'.forwarded # bus.forwarded =>
            LET live == SelectSeq(bus.subs, LAMBDA sub : sub.open)
            IN /\ bus.chan # << >>
               /\ bus'.forwarded = Append(bus.forwarded, Head(bus.chan))
               /\ bus'.chan = Tail(bus.chan)
               /\ Len(bus'.subs) = Len(live)
               /\ \A i \in 1..Len(live) :
                     /\ bus'.subs[i].open
                     /\ bus'.subs[i].recvd = Append(live[i].recvd, Head(bus.chan))]_vars
    /\ [](\A i \in 1..Len(bus.subs) : IsSuffix(bus.subs[i].recvd, bus.forwarded))

\* two subscribers that joined at different times have received events, the
\* later one fewer, while an event is still waiting in the channel
C18_Witness ==
    /\ Len(bus.subs) = 2
    /\ bus.subs[1].open /\ bus.subs[2].open
    /\ Len(bus.subs[1].recvd) >= 3
    /\ Len(bus.subs[2].recvd) = 1
    /\ bus.chan # << >>
    /\ \E i \in 1..Len(bus.forwarded) : bus.forwarded[i].type = "TickReceived"

-----------------------------------------------------------------------------
(* Properties of error handling in the run loop (SpecTick) *)

\* the step in which process_tick fails on the bar runner id takes: the tick
\* is not recorded as processed
FailedTick(id) ==
    /\ ProcessedTick(id)
    /\ task'[id].runner.stats.ticks_processed = task[id].runner.stats.ticks_processed

\* the events of kind Error among those sent by the step just taken
ErrorEvents(evs) == {i \in 1..Len(evs) : evs[i].type = "Error"}

\* C19: with stop_on_error unset, the step of a failed tick sends one Error
\* event, of severity Error, as its last event, adds exactly one to the error
\* counter, leaves the runner Running with its task in the loop and the
\* later bars in its channel; and a runner that has counted an error still
\* processes the bars it takes as ticks.
C19_ErrorCountedRunnerContinues ==
    /\ [][(FailedTick(OneId) /\ ~task[OneId].runner.stop_on_error) =>
            /\ ErrorEvents(emitted') = {Len(emitted')}
            /\ emitted'[Len(emitted')].severity = "Error"
            /\ emitted'[Len(emitted')].runner_id = OneId
            /\ task'[OneId].runner.stats.errors = task[OneId].runner.stats.errors + 1
            /\ task'[OneId].runner.status = "Running"
            /\ task'[OneId].pc = "running"
            /\ task'[OneId].result = "none"]_vars
    /\ [][(/\ ProcessedTick(OneId)
            /\ ~task[OneId].runner.stop_on_error
            /\ task[OneId].runner.stats.errors >= 1) =>
            /\ emitted' # << >>
            /\ emitted'[1].type = "TickReceived"
            /\ emitted'[1].data = Head(inbox[OneId])
            /\ (\/ FailedTick(OneId)
                \/ task'[OneId].runner.stats.ticks_processed
                      = task[OneId].runner.stats.ticks_processed + 1)]_vars

\* after two failed ticks the runner has just processed a third bar
C19_Witness ==
    /\ ~task[OneId].runner.stop_on_error
    /\ task[OneId].pc = "running"
    /\ task[OneId].runner.stats.errors = 2
    /\ task[OneId].runner.stats.ticks_processed = 1
    /\ emitted # << >>
    /\ ErrorEvents(emitted) = {}

\* C20: with stop_on_error set, the step of a failed tick sends one Error
\* event, of severity Critical, as its last event and run() returns the
\* error; from then on the task takes no bar, its only step being the one
\* that completes it and sends RunnerStopped with the error reason; and in
\* the event stream every RunnerStopped with the error reason is preceded by
\* the Critical Error event of that runner, with nothing of the runner
\* between them.
C20_CriticalErrorStopsRunner ==
    /\ [][(FailedTick(OneId) /\ task[OneId].runner.stop_on_error) =>
            /\ ErrorEvents(emitted') = {Len(emitted')}
            /\ emitted'[Len(emitted')].severity = "Critical"
            /\ emitted'[Len(emitted')].runner_id = OneId
            /\ task'[OneId].pc = "returned"
            /\ task'[OneId].result = "Err"]_vars
    /\ [][(task[OneId].pc = "returned" /\ task[OneId].result = "Err") =>
            /\ task'[OneId].runner = task[OneId].runner
            /\ task'[OneId].result = "Err"
            /\ task'[OneId].pc \in {"returned", "done"}
            /\ task'[OneId].pc = "done" =>
                  /\ Len(emitted') = 1
                  /\ emitted'[1].type = "RunnerStopped"
                  /\ emitted'[1].runner_id = OneId
                  /\ emitted'[1].reason = "Error"]_vars
    /\ [](\A j \in 1..Len(EventStream) :
            (EventStream[j].type = "RunnerStopped" /\ EventStream[j].reason = "Error")
            => /\ j > 1
               /\ IsEventOf(j - 1, EventStream[j].runner_id, "Error")
               /\ EventStream[j - 1].severity = "Critical")

\* the runner processed a bar, failed on the next and was stopped with the
\* error; the third bar sent to it was never processed
C20_Witness ==
    /\ task[OneId].pc = "done"
    /\ task[OneId].result = "Err"
    /\ nfeeds = 3
    /\ task[OneId].runner.stats.ticks_processed = 1
    /\ Len(task[OneId].runner.window) = 2
    /\ EventCount(OneId, "TickReceived") = 2
    /\ \E j \in 2..Len(EventStream) :
          /\ EventStream[j].type = "RunnerStopped"
          /\ EventStream[j].reason = "Error"
          /\ EventStream[j - 1].type = "Error"

-----------------------------------------------------------------------------
(* Properties of the engine's synchronous errors (Spec) *)

\* the step of an add_runner call
AddRunnerCall == nadds' = nadds + 1 /\ ret'.call = "add_runner"

\* C21: add_runner with an id that is registered returns RunnerAlreadyExists,
\* and only then; such a call sends no event and leaves the runner map, the
\* routing table, every task (the runner of that id and the others) and
\* every channel as they were.
C21_DuplicateIdRejected ==
    [][AddRunnerCall =>
         /\ (ret'.result = "RunnerAlreadyExists") <=> (ret'.id \in DOMAIN runners)
         /\ ret'.id \in DOMAIN runners =>
               /\ emitted' = << >>
               /\ UNCHANGED <<runners, subscriptions, task, inbox, cmdq, replies>>]_vars

\* add_runner was refused for the id of a runner that holds a bar in its
\* window
C21_Witness ==
    /\ ret.call = "add_runner"
    /\ ret.result = "RunnerAlreadyExists"
    /\ ret.id \in DOMAIN runners
    /\ task[ret.id].pc = "running"
    /\ task[ret.id].runner.window # << >>

\* C22: feed_data(bar) returns NoRunnersForSymbol exactly when no runner is
\* registered for bar.symbol, whether none was added or all were removed,
\* and such a call leaves every inbox as it was.
C22_NoRunnersForSymbol ==
    [][FeedCall =>
         /\ (ret'.result = "NoRunnersForSymbol")
               <=> (RegisteredFor(ret'.data.symbol) = {})
         /\ ret'.result = "NoRunnersForSymbol" => inbox' = inbox]_vars

\* a bar was refused for the symbol of a removed runner while the runner of
\* the other symbol holds a bar
C22_Witness ==
    /\ ret.call = "feed_data"
    /\ ret.result = "NoRunnersForSymbol"
    /\ \E id \in RunnerIds :
          /\ id \notin DOMAIN runners
          /\ task[id].pc = "done"
          /\ task[id].runner.symbol = ret.data.symbol
    /\ \E id \in DOMAIN runners : inbox[id] # << >>

-----------------------------------------------------------------------------
(* Properties of get_runner_snapshot and get_price_history (FairSpecQuery) *)

\* the step in which a query call is made
QueryCalled == ncmds' = ncmds + 1 /\ ret'.call \in {"get_runner_snapshot", "get_price_history"}

\* the step in which a waiting query call returns
QueryReturned == query.phase = "waiting" /\ query'.phase = "idle"

\* C23: a query about an id that is not registered, or whose runner has
\* dropped its command receiver, returns None at once and queues nothing; a
\* waiting query returns None when its timeout elapses or its command was
\* dropped unanswered, and Some(value) only with the value the runner sent on
\* its one-shot channel; what a query returns is None or Some, never an
\* error; a runner that answers a query nobody waits for any more changes
\* neither itself nor the caller; and every waiting query returns.
C23_QueryReturnsNothingOnFailure ==
    /\ [][QueryCalled =>
            IF ret'.id \in DOMAIN runners /\ receiver_open(ret'.id)
            THEN /\ query'.phase = "waiting"
                 /\ query'.slot = None
                 /\ Len(cmdq'[ret'.id]) = Len(cmdq[ret'.id]) + 1
            ELSE /\ ret'.value = None
                 /\ query'.phase = "idle"
                 /\ cmdq' = cmdq /\ task' = task]_vars
    /\ [][QueryReturned =>
            /\ ret'.call = query.call
            /\ ret'.id = query.id
            /\ ret'.value = query.slot
            /\ ret'.value = None \/ Len(ret'.value) = 1
            /\ task' = task]_vars
    /\ [][\A id \in RunnerIds :
            (/\ TookCommand(id)
             /\ "response" \in DOMAIN Head(cmdq[id])
             /\ ~IsResponseOf(query, Head(cmdq[id])))
            => /\ query' = query
               /\ ret' = ret
               /\ task'[id] = task[id]]_vars
    /\ [][\A id \in RunnerIds :
            (TookCommand(id) /\ IsResponseOf(query, Head(cmdq[id])))
            => /\ query'.slot = Some(handle_command(task[id].runner, id,
                                                    Head(cmdq[id])).reply.value)
               /\ task'[id] = task[id]]_vars
    /\ (query.phase = "waiting") ~> (query.phase = "idle")

\* a query about a live runner timed out, and the runner answered it
\* afterwards: the answer went nowhere
C23_Witness ==
    /\ query.phase = "idle"
    /\ ret.call = "get_runner_snapshot"
    /\ ret.id = OneId
    /\ ret.value = None
    /\ ncmds = 1
    /\ task[OneId].pc = "running"
    /\ cmdq[OneId] = << >>
    /\ IsSome(replies[OneId])
    /\ task[OneId].runner.window # << >>

-----------------------------------------------------------------------------
(* Further properties of the stand-alone state machine (SpecFSM, SpecLog) *)

\* C24: execute of ExitPosition, UpdateStopLoss or UpdateTakeProfit with no
\* position, of StartAnalyzing outside Idle, or of CancelAnalysis outside
\* Analyzing returns (execute has no failing path) and leaves the whole
\* state machine as it was: state, position, context and transition log.
C24_UnmetPreconditionDropsAction ==
    [][(op'.kind = "execute" /\ PreconditionUnmet(sm, op'.action)) =>
          /\ sm'.state = sm.state
          /\ sm'.position = sm.position
          /\ sm'.transition_history = sm.transition_history
          /\ sm' = sm]_vars

\* ExitPosition was applied to a machine in Analyzing that had held a
\* position before: nothing was logged for it
C24_Witness ==
    /\ op.kind = "execute"
    /\ op.action.type = "ExitPosition"
    /\ sm.state = "Analyzing"
    /\ sm.position = None
    /\ Len(sm.transition_history) = 3
    /\ sm.transition_history[3].to = "Analyzing"
    /\ nops = 4

\* C25: the transition log never holds more than 100 records; a step that
\* records a transition appends one record, from the state before to the
\* state after, behind the records already held, discarding the oldest one
\* when 100 were held; and every change of state is recorded.
C25_TransitionLogBounded ==
    /\ [](Len(sm.transition_history) <= 100)
    /\ [][sm'.transition_history # sm.transition_history =>
            LET old == sm.transition_history
                new == sm'.transition_history
            IN /\ new # << >>
               /\ new[Len(new)].from = sm.state
               /\ new[Len(new)].to = sm'.state
               /\ SubSeq(new, 1, Len(new) - 1)
                     = IF Len(old) = 100 THEN Tail(old) ELSE old]_vars
    /\ [][sm'.state # sm.state =>
            sm'.transition_history # sm.transition_history]_vars

\* the log is full, its first two records have been discarded and its
\* newest record is an entry
C25_Witness ==
    /\ Len(sm.transition_history) = 100
    /\ nops = 102
    /\ sm.transition_history[1].from = "Idle"
    /\ sm.transition_history[1].to = "Analyzing"
    /\ sm.transition_history[99].to = "Analyzing"
    /\ sm.transition_history[100].to = "InPosition"

-----------------------------------------------------------------------------
(* Properties of the bar window (SpecWindow) *)

\* the bars pushed on the runner's window, in push order: process_tick sends
\* TickReceived with the bar and then pushes it
PushedBars ==
    LET ticks == SelectSeq(EventStream, LAMBDA e : e.type = "TickReceived")
    IN [i \in 1..Len(ticks) |-> ticks[i].data]

Min(a, b) == IF a <= b THEN a ELSE b

\* C26 as stated: after k pushes to a window of capacity c the window holds
\* no more than c bars, and they are the last min(k, c) bars pushed, in push
\* order.
C26_WindowHoldsMostRecent ==
    task[OneId].pc # "none" =>
       LET rn == task[OneId].runner
           k == Len(PushedBars)
           c == rn.max_size
       IN /\ Len(rn.window) <= c
          /\ rn.window = SubSeq(PushedBars, k - Min(k, c) + 1, k)

-----------------------------------------------------------------------------
(* Properties of the bars the engine accepts (SpecOhlc) *)

\* C27 as stated: every bar feed_data has routed to a runner, and every bar
\* a runner holds in its window, has high >= low, open > 0 and close > 0.
C27_AcceptedBarsAreValid ==
    \A id \in RunnerIds :
       /\ \A i \in 1..Len(inbox[id]) :
             /\ inbox[id][i].high >= inbox[id][i].low
             /\ inbox[id][i].open > 0
             /\ inbox[id][i].close > 0
       /\ \A i \in 1..Len(task[id].runner.window) :
             validate(task[id].runner.window[i]) = "Ok"

-----------------------------------------------------------------------------
(* Properties of the positions held (SpecQuantity) *)

\* C28 as stated: the position the state machine holds, whenever it holds
\* one, has a quantity greater than zero.
C28_PositionQuantityPositive ==
    IsSome(sm.position) => Unwrap(sm.position).quantity > 0

-----------------------------------------------------------------------------
(* Properties of the engine's fan-out to closed inboxes (Spec) *)

\* the place of runner id in the subscription order of a symbol, 0 if absent
OrderOf(symbol, id) ==
    IF \E i \in 1..Len(subscriptions[symbol]) : subscriptions[symbol][i] = id
    THEN CHOOSE i \in 1..Len(subscriptions[symbol]) : subscriptions[symbol][i] = id
    ELSE 0

\* C29: a feed_data call returns ChannelClosed exactly when some subscriber
\* of the bar's symbol has a closed inbox; the runner it names is subscribed
\* to the symbol, its inbox is closed, and no subscriber ahead of it has a
\* closed inbox; the subscribers ahead of it have received the bar, and the
\* named runner and those behind it have received nothing.
C29_FanOutStopsAtClosedInbox ==
    [][(FeedCall /\ ret'.data.symbol \in DOMAIN subscriptions) =>
          LET symbol == ret'.data.symbol
              ids == {subscriptions[symbol][i] : i \in 1..Len(subscriptions[symbol])}
          IN /\ (ret'.result = "ChannelClosed")
                   <=> (\E id \in ids : ~receiver_open(id))
             /\ ret'.result = "ChannelClosed" =>
                   /\ ret'.id \in ids
                   /\ ~receiver_open(ret'.id)
                   /\ \A id \in ids :
                         IF OrderOf(symbol, id) < OrderOf(symbol, ret'.id)
                         THEN receiver_open(id) /\ Delivered(id)
                         ELSE inbox'[id] = inbox[id]]_vars

\* a call failed at the first subscriber, and the live subscriber behind it
\* was left without the bar
C29_Witness ==
    /\ ret.call = "feed_data"
    /\ ret.result = "ChannelClosed"
    /\ ret.data.symbol \in DOMAIN subscriptions
    /\ Len(subscriptions[ret.data.symbol]) = 2
    /\ ret.id = subscriptions[ret.data.symbol][1]
    /\ task[subscriptions[ret.data.symbol][2]].pc = "running"
    /\ \A i \in 1..Len(inbox[subscriptions[ret.data.symbol][2]]) :
          inbox[subscriptions[ret.data.symbol][2]][i] # ret.data

\* runner id's task has ended by itself and nobody has removed the runner
EndedUnremoved(id) == id \in DOMAIN runners /\ task[id].pc = "done"

\* C30: a runner whose task has ended by itself stays in the runner map and
\* in the routing table of its symbol, its task ended, until a remove_runner
\* call takes it out; while it is there every feed_data for its symbol
\* returns ChannelClosed, and the runners behind it in the symbol's order
\* receive nothing.
C30_EndedRunnerBlocksItsSymbol ==
    /\ [](\A id \in RunnerIds :
            EndedUnremoved(id) => OrderOf(runners[id].symbol, id) > 0)
    /\ [][\A id \in RunnerIds :
            EndedUnremoved(id) =>
               \/ EndedUnremoved(id)'
               \/ /\ joining' = Some(id)
                  /\ id \notin DOMAIN runners'
                  /\ ret'.call = "remove_runner"
                  /\ ret'.id = id]_vars
    /\ [][\A id \in RunnerIds :
            (/\ FeedCall
             /\ EndedUnremoved(id)
             /\ ret'.data.symbol = runners[id].symbol)
            => /\ ret'.result = "ChannelClosed"
               /\ inbox'[id] = inbox[id]
               /\ \A other \in RegisteredFor(ret'.data.symbol) :
                     OrderOf(ret'.data.symbol, other) > OrderOf(ret'.data.symbol, id)
                        => inbox'[other] = inbox[other]]_vars

\* the first runner of a symbol failed on the first bar and was left in
\* place; the second bar was refused, and the live runner behind it, which
\* has processed the first bar, did not get it
C30_Witness ==
    /\ ret.call = "feed_data"
    /\ ret.result = "ChannelClosed"
    /\ ret.data.timestamp = 2
    /\ EndedUnremoved(ret.id)
    /\ task[ret.id].result = "Err"
    /\ \E other \in RegisteredFor(ret.data.symbol) :
          /\ OrderOf(ret.data.symbol, other) > OrderOf(ret.data.symbol, ret.id)
          /\ task[other].pc = "running"
          /\ Len(task[other].runner.window) = 1
          /\ inbox[other] = << >>

-----------------------------------------------------------------------------
(* Entries, automatic exits (SpecFSM) *)

\* the log after one record was pushed on log: the oldest goes when the cap is passed
Pushed(log, rec) ==
    IF Len(log) >= MAX_TRANSITION_HISTORY THEN Tail(Append(log, rec))
    ELSE Append(log, rec)

\* C31: an EnterLong or EnterShort action applied in any state creates a new
\* open position whose entry price and current price are the action's price
\* and which has no stop and no target, sets the state to InPosition and
\* appends exactly one transition record (from the state before to
\* InPosition); applied while InPosition it replaces the position held.
C31_EntryInAnyState ==
    [][(op'.kind = "execute" /\ is_entry(op'.action)) =>
          /\ sm.state \in State
          /\ sm'.state = "InPosition"
          /\ IsSome(sm'.position)
          /\ LET pos == Unwrap(sm'.position)
             IN /\ ~is_closed(pos)
                /\ pos.entry_price = op'.action.price
                /\ pos.current_price = op'.action.price
                /\ pos.quantity = op'.action.quantity
                /\ pos.side = (IF op'.action.type = "EnterLong" THEN "Long" ELSE "Short")
                /\ pos.stop_loss = None
                /\ pos.take_profit = None
          /\ \E rec \in [from : {sm.state}, to : {"InPosition"},
                          reason : {"Entered Long", "Entered Short"}] :
                sm'.transition_history = Pushed(sm.transition_history, rec)
          /\ sm'.context = sm.context]_vars

\* a short entry applied while InPosition (the last record goes from
\* InPosition to InPosition), after an earlier pass through Analyzing
C31_Witness ==
    /\ op.kind = "execute"
    /\ is_entry(op.action)
    /\ Len(sm.transition_history) >= 2
    /\ sm.transition_history[Len(sm.transition_history)].from = "InPosition"
    /\ sm.transition_history[Len(sm.transition_history)].to = "InPosition"
    /\ \E i \in 1..Len(sm.transition_history) :
          sm.transition_history[i].from = "Analyzing"
    /\ Unwrap(sm.position).stop_loss = None
    /\ Unwrap(sm.position).side = "Short"

\* which risk predicate update acts on for a position at a price: stop first
Trigger(pos, px) ==
    IF StopAt(pos, px) THEN "stop"
    ELSE IF TargetAt(pos, px) THEN "target"
    ELSE "none"

\* the open positions a state machine can hold
OpenPositions ==
    [entry_price : Prices, quantity : Quantities, side : Side,
     current_price : Prices,
     stop_loss : {None} \cup {Some(p) : p \in Prices},
     take_profit : {None} \cup {Some(p) : p \in Prices},
     exit_price : {None}]

\* C32: when update takes the position out, a risk predicate held (the stop
\* is tested first) and the reason of the transition logged tells the
\* trigger: no automatic exit with the other trigger (the stop whenever the
\* stop predicate holds, the target when only the target predicate holds)
\* logs the same reason.
C32_ExitReasonTellsTrigger ==
    [][(op'.kind = "update" /\ op'.exited) =>
          LET pos == Unwrap(sm.position)
              px  == op'.data.close
              rec == sm'.transition_history[Len(sm'.transition_history)]
          IN /\ Trigger(pos, px) # "none"
             /\ rec.from = "InPosition"
             /\ rec.to = "Idle"
             /\ \A other \in OpenPositions, px2 \in Prices :
                   Trigger(other, px2) \notin {"none", Trigger(pos, px)}
                   => exit_reason(close(update_current_price(other, px2), px2), px2)
                          # rec.reason]_vars

-----------------------------------------------------------------------------
(* The routing table and the runner map (Spec) *)

\* C33: after any sequence of add_runner, remove_runner and feed_data calls
\* the routing table agrees with the runner map: for every symbol the
\* subscription list holds exactly the ids of the registered runners of that
\* symbol, each once, and no symbol is mapped to an empty list.
C33_RoutingTableMatchesRunners ==
    /\ DOMAIN subscriptions \subseteq Symbols
    /\ \A symbol \in Symbols :
          IF RegisteredFor(symbol) = {}
          THEN symbol \notin DOMAIN subscriptions
          ELSE /\ symbol \in DOMAIN subscriptions
               /\ {subscriptions[symbol][i] : i \in 1..Len(subscriptions[symbol])}
                     = RegisteredFor(symbol)
               /\ Len(subscriptions[symbol]) = Cardinality(RegisteredFor(symbol))

\* two runners were added on one symbol and fed a bar, then the first was
\* removed: the list of the symbol holds the second alone
C33_Witness ==
    /\ ret.call = "remove_runner"
    /\ ret.result = "Ok"
    /\ nadds = 2
    /\ nfeeds >= 1
    /\ Cardinality(DOMAIN runners) = 1
    /\ \E id \in DOMAIN runners :
          /\ subscriptions = (runners[id].symbol :> <<id>>)
          /\ \E other \in RunnerIds \ {id} :
                /\ task[other].pc = "done"
                /\ task[other].runner.symbol = runners[id].symbol
                /\ task[other].gen < task[id].gen

-----------------------------------------------------------------------------
(* The state changes of a runner (SpecTick) *)

\* C34: every StateTransition event a runner emits goes from Idle to
\* Analyzing, from Analyzing to Idle, from Analyzing to InPosition or from
\* InPosition to Idle, whatever the strategy callbacks return, and so does
\* every change of the runner's state over a tick; a runner in Idle is in
\* Idle or Analyzing after the tick.
C34_RunnerTransitionsAreLegal ==
    [][/\ \A i \in 1..Len(emitted') :
             emitted'[i].type = "StateTransition"
             => <<emitted'[i].from, emitted'[i].to>> \in LegalTransitions
       /\ ProcessedTick(OneId) =>
             LET before == task[OneId].runner.state_machine.state
                 after  == task'[OneId].runner.state_machine.state
             IN /\ before # after => <<before, after>> \in LegalTransitions
                /\ before = "Idle" => after \in {"Idle", "Analyzing"}
                /\ before # after =>
                      \E i \in 1..Len(emitted') :
                         /\ emitted'[i].type = "StateTransition"
                         /\ emitted'[i].from = before
                         /\ emitted'[i].to = after]_vars

\* the tick on which a runner in InPosition is handed a stop by its strategy
\* and exits on it: the event goes from InPosition to Idle, after the runner
\* went through Analyzing
C34_Witness ==
    /\ \E i \in 1..Len(emitted) :
          /\ emitted[i].type = "StateTransition"
          /\ emitted[i].from = "InPosition"
          /\ emitted[i].to = "Idle"
    /\ \E i \in 1..Len(emitted) :
          /\ emitted[i].type = "ActionExecuted"
          /\ emitted[i].action.type = "UpdateStopLoss"
    /\ LET log == task[OneId].runner.state_machine.transition_history
       IN /\ Len(log) = 3
          /\ log[1].to = "Analyzing"
          /\ log[2].to = "InPosition"

-----------------------------------------------------------------------------
(* Bars queued when the inbox is closed (SpecTickEvents) *)

\* remove_runner has dropped the sender of runner id and its loop is running
InboxClosed(id) == id \notin DOMAIN runners /\ task[id].pc = "running"

\* no TickReceived of runner id comes after its RunnerStopped in the stream
NoTickAfterStopped(id) ==
    \A i \in 1..Len(EventStream) :
       IsEventOf(i, id, "RunnerStopped")
       => \A j \in (i + 1)..Len(EventStream) : ~IsEventOf(j, id, "TickReceived")

\* C35 as stated: once remove_runner has closed the inbox of a Running
\* runner, every bar queued is taken in order and processed (its
\* TickReceived is emitted, ahead of RunnerStopped), and the loop is left
\* only with the inbox empty.
C35_QueuedBarsProcessedBeforeExit ==
    /\ [][(InboxClosed(OneId) /\ is_active(task[OneId].runner.status)) =>
            /\ TookBar(OneId) =>
                  /\ emitted' # << >>
                  /\ emitted'[1].type = "TickReceived"
                  /\ emitted'[1].data = Head(inbox[OneId])
            /\ task'[OneId].pc = "returned" => inbox'[OneId] = << >>]_vars
    /\ []NoTickAfterStopped(OneId)

\* C35 amended: once remove_runner has closed the inbox of a Running runner
\* that is sent no command, every bar the runner takes is the oldest queued
\* and is processed (TickReceived, ahead of RunnerStopped); the loop is left
\* with the inbox empty, or else by a tick that failed with stop_on_error
\* set, and then the bars still queued are never processed.
C35_QueuedBarsProcessedUnlessTickFails ==
    /\ [][(InboxClosed(OneId) /\ is_active(task[OneId].runner.status)) =>
            /\ TookBar(OneId) =>
                  /\ emitted' # << >>
                  /\ emitted'[1].type = "TickReceived"
                  /\ emitted'[1].data = Head(inbox[OneId])
            /\ task'[OneId].pc = "returned" =>
                  \/ inbox'[OneId] = << >> /\ task'[OneId].result = "Ok"
                  \/ /\ task'[OneId].result = "Err"
                     /\ task[OneId].runner.stop_on_error
                     /\ TookBar(OneId)
                     /\ emitted'[Len(emitted')].type = "Error"]_vars
    /\ [][(task[OneId].pc = "returned" /\ task'[OneId].pc = "done") =>
            /\ emitted'[1].type = "RunnerStopped"
            /\ \A i \in 1..Len(emitted') : emitted'[i].type # "TickReceived"
            /\ inbox'[OneId] = << >>]_vars
    /\ []NoTickAfterStopped(OneId)

\* remove_runner is awaiting the task, the runner has just processed a bar
\* that was queued when the inbox was closed, and another bar is still queued
C35_Witness ==
    /\ joining = Some(OneId)
    /\ ret.call = "remove_runner"
    /\ InboxClosed(OneId)
    /\ emitted # << >>
    /\ emitted[1].type = "TickReceived"
    /\ Len(emitted) = 1
    /\ inbox[OneId] # << >>
    /\ task[OneId].runner.stats.ticks_processed = 1

-----------------------------------------------------------------------------
(* Counting of ticks (SpecControl) *)

\* the bars runner rn has counted, as processed or as an error
Counted(rn) == rn.stats.ticks_processed + rn.stats.errors

\* the number of TickReceived events of runner id among the events evs
TicksIn(evs, id) ==
    Cardinality({i \in 1..Len(evs) :
                    evs[i].type = "TickReceived" /\ evs[i].runner_id = id})

\* C36: for a runner with stop_on_error unset, ticks_processed + errors
\* equals the number of TickReceived events it has emitted: both are zero
\* for a new runner and every step adds the same to both.  A matching bar
\* taken while Running is counted exactly once, as processed or as an error;
\* a bar discarded because the runner is Paused or Stopped is counted in
\* neither and emits nothing.
C36_CountsMatchTickEvents ==
    [][~task'[OneId].runner.stop_on_error =>
          /\ Counted(task'[OneId].runner) - Counted(task[OneId].runner)
                = TicksIn(emitted', OneId)
          /\ ProcessedTick(OneId) =>
                /\ TicksIn(emitted', OneId) = 1
                /\ \/ /\ task'[OneId].runner.stats.ticks_processed
                            = task[OneId].runner.stats.ticks_processed + 1
                      /\ task'[OneId].runner.stats.errors
                            = task[OneId].runner.stats.errors
                   \/ /\ task'[OneId].runner.stats.errors
                            = task[OneId].runner.stats.errors + 1
                      /\ task'[OneId].runner.stats.ticks_processed
                            = task[OneId].runner.stats.ticks_processed
          /\ (TookBar(OneId) /\ ~ProcessedTick(OneId)) =>
                /\ task'[OneId].runner.stats = task[OneId].runner.stats
                /\ emitted' = << >>]_vars

\* a runner with stop_on_error unset has taken two bars: one failed and was
\* counted as an error, the other was discarded while the runner was Paused
C36_Witness ==
    /\ task[OneId].pc = "running"
    /\ ~task[OneId].runner.stop_on_error
    /\ task[OneId].runner.stats.errors = 1
    /\ task[OneId].runner.stats.ticks_processed = 0
    /\ task[OneId].runner.status = "Paused"
    /\ nfeeds = 2
    /\ inbox[OneId] = << >>
    /\ emitted = << >>
    /\ ret.call = "feed_data"
    /\ ret.result = "Ok"
    /\ ret.data.timestamp = 2
    /\ Len(task[OneId].runner.window) = 1
    /\ task[OneId].runner.window[1].timestamp = 1

-----------------------------------------------------------------------------
(* What a failed tick leaves behind (SpecTick) *)

\* the step in which the strategy callback fails on the bar runner id takes:
\* run reports the failure with an Error event
CallbackFailed(id) ==
    /\ ProcessedTick(id)
    /\ \E i \in 1..Len(emitted') : emitted'[i].type = "Error"

\* C37: when a tick fails inside a strategy callback, what was done before
\* the callback stays and nothing after it happens: TickReceived has been
\* emitted, the bar is the newest of the window, latest_price and
\* latest_timestamp of the context are the bar's, while the state, the
\* position, the transition log, the rest of the context, actions_executed
\* and ticks_processed are unchanged and no ActionExecuted, StateTransition
\* or position event is emitted.
C37_FailedTickKeepsEarlyEffects ==
    [][CallbackFailed(OneId) =>
          LET bar == Head(inbox[OneId])
              rn0 == task[OneId].runner
              rn1 == task'[OneId].runner
          IN /\ emitted'[1].type = "TickReceived"
             /\ emitted'[1].data = bar
             /\ \A i \in 2..Len(emitted') : emitted'[i].type = "Error"
             /\ Len(emitted') = 2
             /\ rn1.window = window_push(rn0.window, rn0.max_size, bar)
             /\ rn1.window[Len(rn1.window)] = bar
             /\ rn1.state_machine.context.latest_price = Some(bar.close)
             /\ rn1.state_machine.context.latest_timestamp = Some(bar.timestamp)
             /\ rn1.state_machine.context.signal = rn0.state_machine.context.signal
             /\ rn1.state_machine.context.confidence
                   = rn0.state_machine.context.confidence
             /\ rn1.state_machine.state = rn0.state_machine.state
             /\ rn1.state_machine.position = rn0.state_machine.position
             /\ rn1.state_machine.transition_history
                   = rn0.state_machine.transition_history
             /\ rn1.stats.actions_executed = rn0.stats.actions_executed
             /\ rn1.stats.ticks_processed = rn0.stats.ticks_processed]_vars

\* manage_position failed on a bar that closes away from the price of the
\* position held: the context has the new price, the position the old one
C37_Witness ==
    /\ Len(emitted) = 2
    /\ emitted[1].type = "TickReceived"
    /\ emitted[2].type = "Error"
    /\ task[OneId].runner.state_machine.state = "InPosition"
    /\ IsSome(task[OneId].runner.state_machine.position)
    /\ Some(Unwrap(task[OneId].runner.state_machine.position).current_price)
          # task[OneId].runner.state_machine.context.latest_price
    /\ task[OneId].runner.state_machine.context.latest_price = Some(emitted[1].data.close)
    /\ task[OneId].runner.stats.ticks_processed = 2
    /\ task[OneId].runner.stats.actions_executed = 2

-----------------------------------------------------------------------------
(* The event subscribers (SpecEvents) *)

\* the step in which the forwarding task forwards an event
Forwarded == bus'.forwarded # bus.forwarded

\* C38: the senders of subscribers that dropped their receiver are pruned in
\* place: a forwarding step leaves in the list exactly the subscribers whose
\* receiver lives, in the order they had, each sent the event forwarded, so
\* a dropped receiver neither blocks, reorders nor skips the others; a
\* dropped subscriber's sender stays in the list until that step, and no
\* other step removes a sender or delivers an event.
C38_DroppedSubscribersPruned ==
    [][/\ Forwarded =>
             LET live  == SelectSeq(bus.subs, LAMBDA sub : sub.open)
                 event == Head(bus.chan)
             IN /\ \A i \in 1..Len(bus'.subs) : bus'.subs[i].open
                /\ bus'.subs =
                      [i \in 1..Len(live) |->
                          [live[i] EXCEPT !.recvd = Append(@, event)]]
       /\ ~Forwarded =>
             /\ Len(bus'.subs) >= Len(bus.subs)
             /\ \A i \in 1..Len(bus.subs) :
                   /\ bus'.subs[i].recvd = bus.subs[i].recvd
                   /\ bus'.subs[i].since = bus.subs[i].since
                   /\ bus.subs[i].open \/ ~bus'.subs[i].open]_vars

\* the first of two subscribers has dropped its receiver after both were
\* sent an event; its sender is still listed, and it is the next forwarding
\* step, for the event waiting in the channel, that prunes it
C38_Witness ==
    /\ Len(bus.subs) = 2
    /\ ~bus.subs[1].open
    /\ bus.subs[2].open
    /\ bus.subs[1].recvd # << >>
    /\ bus.subs[2].recvd # << >>
    /\ bus.chan # << >>
    /\ bus.forwarded # << >>

\* C40: a subscriber receives exactly the events the aggregator forwards
\* after its sender was registered by subscribe_events, in forwarding order:
\* what it has been sent is the forwarded sequence from the registration on,
\* it starts empty, and nothing forwarded before the registration is
\* replayed to it.
C40_SubscriberSeesEventsSinceRegistration ==
    /\ [](\A i \in 1..Len(bus.subs) :
            /\ bus.subs[i].since <= Len(bus.forwarded)
            /\ bus.subs[i].recvd =
                  SubSeq(bus.forwarded, bus.subs[i].since + 1, Len(bus.forwarded)))
    /\ [][Len(bus'.subs) > Len(bus.subs) =>
            /\ bus'.forwarded = bus.forwarded
            /\ bus'.chan = bus.chan
            /\ bus'.subs[Len(bus'.subs)].recvd = << >>
            /\ bus'.subs[Len(bus'.subs)].since = Len(bus.forwarded)]_vars

\* a subscriber registered after the RunnerStarted of a runner had been
\* forwarded has been sent a later event of that runner and not RunnerStarted
C40_Witness ==
    /\ Len(bus.subs) >= 1
    /\ bus.subs[Len(bus.subs)].open
    /\ bus.subs[Len(bus.subs)].since >= 1
    /\ bus.forwarded[1].type = "RunnerStarted"
    /\ bus.subs[Len(bus.subs)].recvd # << >>
    /\ \A j \in 1..Len(bus.subs[Len(bus.subs)].recvd) :
          bus.subs[Len(bus.subs)].recvd[j].type # "RunnerStarted"
    /\ \E j \in 1..Len(bus.subs[Len(bus.subs)].recvd) :
          bus.subs[Len(bus.subs)].recvd[j].type = "TickReceived"

-----------------------------------------------------------------------------
(* A closed position (SpecPosition) *)

\* C39: once a Position has been closed, update_current_price, set_stop_loss,
\* set_take_profit and a second close leave every field of the record
\* unchanged; the first exit price is kept.
C39_ClosedPositionIsFrozen ==
    [][(/\ IsSome(position)
        /\ is_closed(Unwrap(position))
        /\ op'.kind \in {"update_current_price", "set_stop_loss",
                         "set_take_profit", "close"})
       => position' = position]_vars

====
